---- MODULE Spec2Model ----
(***************************************************************************)
(* mhtml2html: the MHTML parser (parse) and the HTML/CSS rewriter          *)
(* (convert) of src/src/mhtml2html.js, as a state machine.                 *)
(*                                                                         *)
(* Strings are TLA+ strings, one character per UTF-16 code unit of the     *)
(* JavaScript string.  Positions are 0-based as in JavaScript.             *)
(***************************************************************************)
EXTENDS Integers, Sequences, FiniteSets, TLC

(***************************************************************************)
(* Bounds of the model.                                                    *)
(***************************************************************************)
\* Nesting of processCSS / replaceReferences calls that is followed before
\* the evaluation is reported as not returning (the source has no bound).
MaxCssDepth ==
  3

\* Nesting of convert calls (iframe recursion) followed by the model.
MaxFrameDepth ==
  3

(***************************************************************************)
(* JavaScript strings.                                                     *)
(***************************************************************************)
Min2(a, b) ==
  IF a <= b THEN a ELSE b

Max2(a, b) ==
  IF a >= b THEN a ELSE b

Clamp(k, n) ==
  Max2(0, Min2(k, n))

\* The least and the greatest member of a set of positions; -1 when empty.
firstOf(hits) ==
  IF hits = {} THEN -1 ELSE CHOOSE k \in hits : \A j \in hits : k <= j

lastOf(hits) ==
  IF hits = {} THEN -1 ELSE CHOOSE k \in hits : \A j \in hits : k >= j

\* s[k] / s.charAt(k); "" past the end.
charAt(s, k) ==
  IF k >= 0 /\ k < Len(s) THEN SubSeq(s, k + 1, k + 1) ELSE ""

\* The characters of s from position a up to position b, a <= b.
slice(s, a, b) ==
  SubSeq(s, a + 1, b)

\* String.prototype.substring: both ends clamped, swapped when start > end.
substring(s, a, b) ==
  slice(s, Min2(Clamp(a, Len(s)), Clamp(b, Len(s))),
           Max2(Clamp(a, Len(s)), Clamp(b, Len(s))))

\* s.substring(a) to the end of the string.
substringFrom(s, a) ==
  slice(s, Clamp(a, Len(s)), Len(s))

matchAt(s, pat, k) ==
  /\ k >= 0
  /\ k + Len(pat) <= Len(s)
  /\ SubSeq(s, k + 1, k + Len(pat)) = pat

\* String.prototype.indexOf(pat, from): first position >= from, or -1.
indexOf(s, pat, from) ==
  firstOf({k \in Max2(0, from)..(Len(s) - Len(pat)) : matchAt(s, pat, k)})

includes(s, pat) ==
  \E k \in 0..(Len(s) - Len(pat)) : matchAt(s, pat, k)

startsWith(s, pat) ==
  matchAt(s, pat, 0)

endsWith(s, pat) ==
  matchAt(s, pat, Len(s) - Len(pat))

\* The characters /\s/ and String.prototype.trim treat as white space
\* (those that can occur in the model's texts).
IsSpace(c) ==
  c \in {" ", "\t", "\n", "\r", "\f"}

\* The positions of s that hold no white space.
inked(s) ==
  {k \in 0..(Len(s) - 1) : ~IsSpace(charAt(s, k))}

trimStart(s) ==
  IF inked(s) = {} THEN "" ELSE slice(s, firstOf(inked(s)), Len(s))

trimEnd(s) ==
  IF inked(s) = {} THEN "" ELSE slice(s, 0, lastOf(inked(s)) + 1)

\* String.prototype.trim.
strTrim(s) ==
  IF inked(s) = {} THEN "" ELSE slice(s, firstOf(inked(s)), lastOf(inked(s)) + 1)

\* s with rep in place of the Len(pat) characters at k.
RECURSIVE replaceAll(_, _, _)
replaceAt(s, pat, rep, k) ==
  IF k = -1 \/ Len(pat) = 0 THEN s
  ELSE slice(s, 0, k) \o rep \o replaceAll(slice(s, k + Len(pat), Len(s)), pat, rep)

\* s.replace(/pat/g, rep) for a literal pattern, left to right, no rescan.
replaceAll(s, pat, rep) ==
  replaceAt(s, pat, rep, indexOf(s, pat, 0))

UpperAlpha ==
  "ABCDEFGHIJKLMNOPQRSTUVWXYZ"

LowerAlpha ==
  "abcdefghijklmnopqrstuvwxyz"

\* The character at position k of to when k is a position, c otherwise.
translated(c, k, to) ==
  IF Len(c) = 1 /\ k > -1 THEN charAt(to, k) ELSE c

toLowerChar(c) ==
  translated(c, indexOf(UpperAlpha, c, 0), LowerAlpha)

\* Array.prototype.join, halving the array.
RECURSIVE join(_, _)
join(parts, sep) ==
  IF Len(parts) = 0 THEN ""
  ELSE IF Len(parts) = 1 THEN parts[1]
  ELSE join(SubSeq(parts, 1, Len(parts) \div 2), sep) \o sep
         \o join(SubSeq(parts, Len(parts) \div 2 + 1, Len(parts)), sep)

\* The string made of piece(k) for every position k of s, in order.
mapChars(s, piece(_)) ==
  join([n \in 1..Len(s) |-> piece(n - 1)], "")

toLowerCase(s) ==
  mapChars(s, LAMBDA k : toLowerChar(charAt(s, k)))

\* s.replace(/pat/gi, rep) for a literal lower-case pattern.
RECURSIVE replaceAllIgnoreCase(_, _, _)
replaceAtIgnoreCase(s, pat, rep, k) ==
  IF k = -1 \/ Len(pat) = 0 THEN s
  ELSE slice(s, 0, k) \o rep
         \o replaceAllIgnoreCase(slice(s, k + Len(pat), Len(s)), pat, rep)

replaceAllIgnoreCase(s, pat, rep) ==
  replaceAtIgnoreCase(s, pat, rep, indexOf(toLowerCase(s), pat, 0))

\* s.split(sep) for a non-empty literal separator.
RECURSIVE split(_, _)
splitAt(s, sep, k) ==
  IF k = -1 THEN <<s>>
  ELSE <<slice(s, 0, k)>> \o split(slice(s, k + Len(sep), Len(s)), sep)

split(s, sep) ==
  splitAt(s, sep, indexOf(s, sep, 0))

\* Array.prototype.pop: the array without its last element.
popped(arr) ==
  IF Len(arr) = 0 THEN arr ELSE SubSeq(arr, 1, Len(arr) - 1)

last(arr) ==
  arr[Len(arr)]

(***************************************************************************)
(* Character codes (String.prototype.charCodeAt / String.fromCharCode).    *)
(***************************************************************************)
\* The characters of the model's texts: tab, line feed, form feed, carriage
\* return, the printable ASCII characters (the grave accent, code 96, cannot
\* be written in a TLA+ string and does not occur), and five others.
Chars ==
  "\t\n\f\r"
    \o " !\"#$%&'()*+,-./0123456789:;<=>?@ABCDEFGHIJKLMNOPQRSTUVWXYZ[\\]^_"
    \o "abcdefghijklmnopqrstuvwxyz{|}~"
    \o "©ÃÎéΩ"

\* Their codes, in the same order.
Codes ==
  <<9, 10, 12, 13>> \o [n \in 1..64 |-> 31 + n] \o [n \in 1..30 |-> 96 + n]
    \o <<169, 195, 206, 233, 937>>

\* A code the model has no character for (never produced by its inputs).
NoChar ==
  "?"

codeAt(k) ==
  IF k = -1 THEN -1 ELSE Codes[k + 1]

charCode(c) ==
  IF Len(c) = 1 THEN codeAt(indexOf(Chars, c, 0)) ELSE -1

charWith(places) ==
  IF places = {} THEN NoChar ELSE charAt(Chars, (CHOOSE k \in places : TRUE) - 1)

fromCharCode(n) ==
  charWith({k \in 1..Len(Codes) : Codes[k] = n})

\* The codes of the characters of s.
codeUnits(s) ==
  [n \in 1..Len(s) |-> charCode(charAt(s, n - 1))]

HexDigits ==
  "0123456789ABCDEF"

\* Two upper-case hexadecimal digits of a code below 256.
toHex2(n) ==
  charAt(HexDigits, n \div 16) \o charAt(HexDigits, n % 16)

toHex4(n) ==
  toHex2(n \div 256) \o toHex2(n % 256)

isHexDigit(c) ==
  Len(c) = 1 /\ includes("0123456789ABCDEFabcdef", c)

hexValue(c) ==
  indexOf("0123456789ABCDEF0000000000abcdef", c, 0) % 16

\* An evaluation that returned v, and one that threw the error e.
Ok(v) ==
  [ok |-> TRUE, v |-> v]

Throw(e) ==
  [ok |-> FALSE, v |-> e]

(***************************************************************************)
(* Base64 (package base-64) and quoted-printable (package                  *)
(* quoted-printable), escape and encodeURIComponent, as the source uses    *)
(* them.                                                                   *)
(***************************************************************************)
TABLE ==
  "ABCDEFGHIJKLMNOPQRSTUVWXYZabcdefghijklmnopqrstuvwxyz0123456789+/"

b64(n) ==
  charAt(TABLE, n % 64)

\* The sextets of the 24 bits of three characters.
sextets(buffer) ==
  b64(buffer \div 262144) \o b64(buffer \div 4096) \o b64(buffer \div 64) \o b64(buffer)

\* The sextets of up to three characters, given by their codes, padded.
encodeGroup(b) ==
  IF Len(b) = 0 THEN ""
  ELSE IF Len(b) = 1 THEN slice(sextets(b[1] * 65536), 0, 2) \o "=="
  ELSE IF Len(b) = 2 THEN slice(sextets(b[1] * 65536 + b[2] * 256), 0, 3) \o "="
  ELSE sextets(b[1] * 65536 + b[2] * 256 + b[3])

encodeGroups(b) ==
  join([g \in 1..((Len(b) + 2) \div 3) |->
          encodeGroup(SubSeq(b, 3 * g - 2, Min2(3 * g, Len(b))))], "")

\* Base64.encode of the characters with codes b: throws on a character
\* outside the Latin1 range.
encodeCodes(b) ==
  IF \E k \in 1..Len(b) : b[k] > 255 THEN Throw("InvalidCharacterError")
  ELSE Ok(encodeGroups(b))

Base64encode(s) ==
  encodeCodes(codeUnits(s))

removeSpaces(s) ==
  mapChars(s, LAMBDA k : IF IsSpace(charAt(s, k)) THEN "" ELSE charAt(s, k))

\* The values of the sextets of s.
sextetValues(s) ==
  [n \in 1..Len(s) |-> indexOf(TABLE, charAt(s, n - 1), 0)]

\* The bytes of up to four sextets (a short group yields the bytes that are
\* complete).
decodeGroup(v) ==
  (IF Len(v) < 2 THEN "" ELSE fromCharCode((v[1] * 4 + v[2] \div 16) % 256))
    \o (IF Len(v) < 3 THEN "" ELSE fromCharCode((v[2] * 16 + v[3] \div 4) % 256))
    \o (IF Len(v) < 4 THEN "" ELSE fromCharCode((v[3] * 64 + v[4]) % 256))

decodeGroups(v) ==
  join([g \in 1..((Len(v) + 3) \div 4) |->
          decodeGroup(SubSeq(v, 4 * g - 3, Min2(4 * g, Len(v))))], "")

stripPadding(s) ==
  IF Len(s) % 4 # 0 THEN s
  ELSE IF endsWith(s, "==") THEN slice(s, 0, Len(s) - 2)
  ELSE IF endsWith(s, "=") THEN slice(s, 0, Len(s) - 1)
  ELSE s

\* Base64.decode of the sextets with values v: throws on a bad length or
\* character.
decodeValues(v) ==
  IF Len(v) % 4 = 1 \/ \E k \in 1..Len(v) : v[k] = -1
  THEN Throw("InvalidCharacterError")
  ELSE Ok(decodeGroups(v))

\* Base64.decode: white space removed, padding removed when the length is a
\* multiple of four.
Base64decode(s) ==
  decodeValues(sextetValues(stripPadding(removeSpaces(s))))

\* .replace(/[\t\x20]$/gm, ''): one blank before each line end is deleted.
qpTrailing(s) ==
  mapChars(s, LAMBDA k : IF /\ charAt(s, k) \in {"\t", " "}
                            /\ (k = Len(s) - 1 \/ charAt(s, k + 1) \in {"\n", "\r"})
                         THEN "" ELSE charAt(s, k))

\* A "=" at position k that starts a soft line break.
qpSoft(s, k) ==
  charAt(s, k) = "=" /\ (k = Len(s) - 1 \/ charAt(s, k + 1) \in {"\r", "\n"})

\* .replace(/=(?:\r\n?|\n|$)/g, ''): soft line breaks are deleted.
qpSoftBreaks(s) ==
  mapChars(s, LAMBDA k : IF \/ qpSoft(s, k)
                            \/ charAt(s, k) \in {"\r", "\n"} /\ qpSoft(s, k - 1)
                            \/ charAt(s, k) = "\n" /\ charAt(s, k - 1) = "\r"
                                 /\ qpSoft(s, k - 2)
                         THEN "" ELSE charAt(s, k))

\* A "=" at position k followed by two hexadecimal digits.
qpEscaped(s, k) ==
  charAt(s, k) = "=" /\ isHexDigit(charAt(s, k + 1)) /\ isHexDigit(charAt(s, k + 2))

\* .replace(/=([a-fA-F0-9]{2})/g, fromCharCode(parseInt($1, 16))).
qpEscapes(s) ==
  mapChars(s, LAMBDA k : IF qpEscaped(s, k)
                         THEN fromCharCode(hexValue(charAt(s, k + 1)) * 16
                                             + hexValue(charAt(s, k + 2)))
                         ELSE IF qpEscaped(s, k - 1) \/ qpEscaped(s, k - 2) THEN ""
                         ELSE charAt(s, k))

\* QuotedPrintable.decode.
QuotedPrintableDecode(s) ==
  qpEscapes(qpSoftBreaks(qpTrailing(s)))

isAlnum(c) ==
  Len(c) = 1
    /\ includes("ABCDEFGHIJKLMNOPQRSTUVWXYZabcdefghijklmnopqrstuvwxyz0123456789", c)

\* A character with code n as escape() writes it.
escapeChar(c, n) ==
  IF isAlnum(c) \/ includes("@*_+-./", c) THEN c
  ELSE IF n < 256 THEN "%" \o toHex2(n)
  ELSE "%u" \o toHex4(n)

\* The global escape(): code units outside A-Za-z0-9@*_+-./ become %XX or %uXXXX.
escape(s) ==
  mapChars(s, LAMBDA k : escapeChar(charAt(s, k), charCode(charAt(s, k))))

\* The UTF-8 bytes of a code point below 0x800.
utf8Bytes(n) ==
  IF n < 128 THEN <<n>>
  ELSE <<192 + (n \div 64), 128 + (n % 64)>>

\* A character with UTF-8 bytes as encodeURIComponent writes it.
encodeChar(c, bytes) ==
  IF isAlnum(c) \/ includes("-_.!~*'()", c) THEN c
  ELSE IF Len(bytes) = 1 THEN "%" \o toHex2(bytes[1])
  ELSE "%" \o toHex2(bytes[1]) \o "%" \o toHex2(bytes[2])

\* encodeURIComponent: A-Za-z0-9-_.!~*'() stay, the rest is %XX per UTF-8 byte.
encodeURIComponent(s) ==
  mapChars(s, LAMBDA k : encodeChar(charAt(s, k), utf8Bytes(charCode(charAt(s, k)))))

\* A lead byte of a two-byte sequence, and a continuation byte.
utf8Lead(n) ==
  n >= 194 /\ n <= 223

utf8Continuation(n) ==
  n >= 128 /\ n <= 191

\* Whether the code units b, read as bytes, are well-formed UTF-8
\* (sequences of one or two bytes; longer ones do not occur in the model).
utf8WellFormed(b) ==
  \A k \in 1..Len(b) :
    \/ b[k] < 128
    \/ utf8Lead(b[k]) /\ k < Len(b) /\ utf8Continuation(b[k + 1])
    \/ utf8Continuation(b[k]) /\ k > 1 /\ utf8Lead(b[k - 1])

utf8Decode(b) ==
  join([k \in 1..Len(b) |->
          IF b[k] < 128 THEN fromCharCode(b[k])
          ELSE IF utf8Lead(b[k]) THEN fromCharCode((b[k] - 192) * 64 + (b[k + 1] - 128))
          ELSE ""], "")

decodeBytes(b) ==
  IF utf8WellFormed(b) THEN Ok(utf8Decode(b)) ELSE Throw("URIError")

\* decodeURIComponent(escape(s)): s read as UTF-8 bytes; throws (URIError)
\* when s holds a code unit above 255 or is not well-formed UTF-8.
decodeUnicode(s) ==
  decodeBytes(codeUnits(s))

(***************************************************************************)
(* JavaScript objects used as maps: media and frames.                      *)
(*                                                                         *)
(* An object is the sequence of its own properties [k, v] in the order     *)
(* they were created.  obj[x] for a name x that is not an own property is  *)
(* looked up on Object.prototype.                                          *)
(***************************************************************************)
\* Names every object literal {} inherits from Object.prototype.
ObjectPrototypeKeys ==
  {"constructor", "toString", "toLocaleString", "valueOf", "hasOwnProperty",
   "isPrototypeOf", "propertyIsEnumerable", "__proto__"}

hasOwn(obj, x) ==
  \E n \in 1..Len(obj) : obj[n].k = x

own(obj, x) ==
  obj[CHOOSE n \in 1..Len(obj) : obj[n].k = x].v

\* typeof obj[x] !== 'undefined'
defined(obj, x) ==
  hasOwn(obj, x) \/ x \in ObjectPrototypeKeys

\* What reading a member of Object.prototype as a resource yields: type,
\* encoding and data are undefined (written as the string the rewriter's
\* template literal and Base64.encode turn undefined into).
ProtoMember ==
  [type |-> "undefined", encoding |-> "undefined", data |-> "undefined",
   id |-> <<>>, inherited |-> TRUE]

\* obj[x] when it is defined.
get(obj, x) ==
  IF hasOwn(obj, x) THEN own(obj, x) ELSE ProtoMember

\* A resource as parse builds it (id is <<>> when the part had no Content-ID).
Asset(type, encoding, data, id) ==
  [type |-> type, encoding |-> encoding, data |-> data, id |-> id,
   inherited |-> FALSE]

\* obj[x] = v
put(obj, x, v) ==
  IF hasOwn(obj, x)
  THEN [n \in 1..Len(obj) |-> IF obj[n].k = x THEN [k |-> x, v |-> v] ELSE obj[n]]
  ELSE Append(obj, [k |-> x, v |-> v])

isDigits(x) ==
  Len(x) > 0 /\ \A k \in 0..(Len(x) - 1) : includes("0123456789", charAt(x, k))

RECURSIVE toNumber(_)
toNumber(x) ==
  IF Len(x) = 0 THEN 0
  ELSE toNumber(SubSeq(x, 1, Len(x) - 1)) * 10
         + indexOf("0123456789", charAt(x, Len(x) - 1), 0)

\* Integer-like property names ("0", "17"), which Object.keys lists first
\* (names of up to nine digits; longer ones do not occur in the model).
isArrayIndex(x) ==
  /\ isDigits(x)
  /\ Len(x) <= 9
  /\ (Len(x) = 1 \/ charAt(x, 0) # "0")

RECURSIVE sortedIndexKeys(_)
sortedIndexKeys(ks) ==
  LET rest(m) == <<m>> \o sortedIndexKeys(ks \ {m})
  IN  IF ks = {} THEN <<>>
      ELSE rest(CHOOSE a \in ks : \A b \in ks : toNumber(a) <= toNumber(b))

\* Object.keys(obj): integer-like names in ascending order, then the other
\* names in creation order.
ObjectKeys(obj) ==
  sortedIndexKeys({obj[n].k : n \in {m \in 1..Len(obj) : isArrayIndex(obj[m].k)}})
    \o SelectSeq([n \in 1..Len(obj) |-> obj[n].k], LAMBDA x : ~isArrayIndex(x))

(***************************************************************************)
(* URL resolution.                                                         *)
(***************************************************************************)
RECURSIVE foldParts(_, _)
foldParts(stack, parts) ==
  IF Len(parts) = 0 THEN stack
  ELSE IF parts[1] = "." THEN foldParts(stack, Tail(parts))
  ELSE IF parts[1] = ".." THEN foldParts(popped(stack), Tail(parts))
  ELSE foldParts(Append(stack, parts[1]), Tail(parts))

absoluteURL(base, relative) ==
  IF startsWith(relative, "http://") \/ startsWith(relative, "https://")
  THEN relative
  ELSE join(foldParts(popped(split(base, "/")), split(relative, "/")), "/")

\* The host of an http(s) URL (the bases of the model carry no port, user
\* or upper-case host).
host(base) ==
  split(slice(base, IF startsWith(base, "https://") THEN 8 ELSE 7, Len(base)), "/")[1]

\* new URL(base) succeeds: an http(s) URL with a host.
urlParses(base) ==
  (startsWith(base, "http://") \/ startsWith(base, "https://")) /\ Len(host(base)) > 0

\* new URL(base).origin
origin(base) ==
  (IF startsWith(base, "https://") THEN "https://" ELSE "http://") \o host(base)

Found(path, entry) ==
  [found |-> TRUE, path |-> path, entry |-> entry]

NotFound ==
  [found |-> FALSE, path |-> "", entry |-> ProtoMember]

\* Try to find an asset in media using multiple URL resolution strategies.
findAsset(media, base, reference) ==
  LET at(path) == Found(path, get(media, path))
      keyAt(keys, n) == IF n = -1 THEN NotFound ELSE at(keys[n])
      amongKeys(keys, filename) ==
        keyAt(keys, firstOf({n \in 1..Len(keys) :
                               \/ endsWith(keys[n], "/" \o filename)
                               \/ endsWith(keys[n], filename)}))
      byFilename(filename) ==
        IF Len(filename) > 3 THEN amongKeys(ObjectKeys(media), filename) ELSE NotFound
      rootRelative(cleanRef, fullUrl) ==
        IF startsWith(cleanRef, "/") /\ urlParses(base) /\ defined(media, fullUrl)
        THEN at(fullUrl)
        ELSE byFilename(last(split(cleanRef, "/")))
      relativeToBase(cleanRef, absolutePath) ==
        IF defined(media, absolutePath) THEN at(absolutePath)
        ELSE rootRelative(cleanRef, origin(base) \o cleanRef)
      direct(cleanRef) ==
        IF defined(media, cleanRef) THEN at(cleanRef)
        ELSE relativeToBase(cleanRef, absoluteURL(base, cleanRef))
  IN  direct(replaceAll(replaceAll(reference, "\"", ""), "'", ""))

(***************************************************************************)
(* The CSS rewriter.                                                       *)
(***************************************************************************)
CSS_URL_RULE ==
  "url("

\* entry.encoding === 'base64' ? Base64.decode(entry.data) : entry.data
decodeEntry(entry) ==
  IF entry.encoding = "base64" THEN Base64decode(entry.data) ELSE Ok(entry.data)

\* splice with the text after the reference taken one character late.
spliceLate(css, i, reference, embeddedAsset) ==
  substring(css, 0, i) \o embeddedAsset \o substringFrom(css, i + Len(reference) + 1)

\* `${css.substring(0, i)}${embeddedAsset}${css.substring(i + reference.length)}`
splice(css, i, reference, embeddedAsset) ==
  substring(css, 0, i) \o embeddedAsset \o substringFrom(css, i + Len(reference))

RECURSIVE processCSS(_, _, _)
RECURSIVE replaceReferences(_, _, _, _)
RECURSIVE replaceFrom(_, _, _, _, _)

\* One evaluation of the for loop's test, from = i as it stands, and what
\* follows it.  depth counts the processCSS calls that may still nest.
replaceFrom(media, base, css, from, depth) ==
  LET advance(text, i, reference) ==
        replaceFrom(media, base, text, i + Len(reference), depth)
      embed(i, reference, type, encoded) ==
        IF ~encoded.ok THEN advance(css, i, reference)
        ELSE advance(splice(css, i, reference,
                            "'data:" \o type \o ";base64," \o encoded.v \o "'"),
                     i, reference)
      encode(i, reference, type, assetData) ==
        IF ~assetData.ok THEN assetData
        ELSE embed(i, reference, type, Base64encode(assetData.v))
      resolve(i, reference, found) ==
        IF ~found.found THEN advance(css, i, reference)
        ELSE encode(i, reference, found.entry.type,
                    IF found.entry.type = "text/css"
                    THEN processCSS(media, found.path, depth)
                    ELSE decodeEntry(found.entry))
      body(i, reference) ==
        resolve(i, reference, findAsset(media, base, reference))
      test(i) ==
        IF ~(i > 0) THEN Ok(css)
        ELSE body(i + Len(CSS_URL_RULE),
                  substring(css, i + Len(CSS_URL_RULE),
                            indexOf(css, ")", i + Len(CSS_URL_RULE))))
  IN  test(indexOf(css, CSS_URL_RULE, from))

\* Replace asset references with the corresponding data URIs.
replaceReferences(media, base, css, depth) ==
  replaceFrom(media, base, css, 0, depth)

\* Decode and process CSS from a media entry; "null" when it is no stylesheet.
\* A nesting deeper than MaxCssDepth ends as the stack overflow it is.
processCSS(media, path, depth) ==
  LET process(decoded) ==
        IF ~decoded.ok THEN decoded
        ELSE replaceReferences(media, path, decoded.v, depth - 1)
  IN  IF ~defined(media, path) \/ get(media, path).type # "text/css" THEN Ok("null")
      ELSE IF depth = 0 THEN Throw("RangeError")
      ELSE process(decodeEntry(get(media, path)))

(***************************************************************************)
(* parse: the MHTML parser.                                                *)
(*                                                                         *)
(* The locals of one parse call are the record ps:                         *)
(*   mhtml, i, l           the text, the read position, the line count     *)
(*   state                 the MHTML_FSM state                             *)
(*   headers, content      the header objects ([k, v] sequences)           *)
(*   assets                the asset objects created so far, by creation   *)
(*   media, frames         objects whose values are positions in assets    *)
(*                         (media[location] and frames[id] share an asset) *)
(*   asset                 position of the current asset, 0 before any     *)
(*   index, key, boundary, encoding   <<>> while undefined, else <<value>> *)
(*   status, error         "running", "returned" (archive), "htmlOnly"     *)
(*                         (parseDOM result returned), "threw"             *)
(***************************************************************************)
MHTML_HEADERS ==
  0

MTHML_CONTENT ==
  1

MHTML_DATA ==
  2

MHTML_END ==
  3

\* The locals of parse when its loop is entered.
parseStart(mhtml) ==
  [mhtml |-> mhtml, i |-> 0, l |-> 0, state |-> MHTML_HEADERS,
   headers |-> <<>>, content |-> <<>>, assets |-> <<>>,
   media |-> <<>>, frames |-> <<>>, asset |-> 0,
   index |-> <<>>, key |-> <<>>, boundary |-> <<>>, encoding |-> <<>>,
   status |-> "running", error |-> ""]

\* assert(false, error) inside parse.
fail(ps, error) ==
  [ps EXCEPT !.status = "threw", !.error = error]

\* trim(): discards white space; throws at the last character of the text.
RECURSIVE trim(_)
trim(ps) ==
  IF ~(ps.i < Len(ps.mhtml) - 1) THEN fail(ps, "Unexpected EOF")
  ELSE IF IsSpace(charAt(ps.mhtml, ps.i))
  THEN trim([ps EXCEPT !.i = ps.i + 1,
                       !.l = IF charAt(ps.mhtml, ps.i + 1) = "\n" THEN ps.l + 1 ELSE ps.l])
  ELSE ps

\* The line getLine(encoding) returns, decoded.
decodeLine(line, encoding) ==
  IF encoding = <<"quoted-printable">> THEN QuotedPrintableDecode(line)
  ELSE IF encoding = <<"base64">> THEN strTrim(line)
  ELSE line

\* getLine(encoding): the text from i up to and including the next "\n";
\* throws when no "\n" follows.  Returns the locals and the line.
getLine(ps, encoding) ==
  LET upTo(k) ==
        IF k = -1 \/ ps.i >= Len(ps.mhtml)
        THEN [ps |-> fail(ps, "Unexpected EOF"), line |-> ""]
        ELSE [ps |-> [ps EXCEPT !.i = k + 1, !.l = ps.l + 1],
              line |-> decodeLine(slice(ps.mhtml, ps.i, k + 1), encoding)]
  IN  upTo(indexOf(ps.mhtml, "\n", ps.i))

\* endsHeaders with the test next != '\n' alone: only the line "\n" ends a
\* header block.
endsHeadersLF(next) ==
  next = "\n"

\* next != 0 && next != '\n' is false: the line converts to the number 0
\* (it is empty or white space, or spells zero).
endsHeaders(next) ==
  LET zero(t) ==
        \/ t = ""
        \/ \A k \in 0..(Len(t) - 1) : charAt(t, k) = "0"
        \/ t \in {"-0", "+0", "0.0", "0x0"}
  IN  zero(strTrim(next))

\* obj[key] read as a string by +=.
readForAppend(obj, key) ==
  IF hasOwn(obj, key) THEN own(obj, key)
  ELSE IF key \in ObjectPrototypeKeys THEN "function () { [native code] }"
  ELSE "undefined"

\* splitHeaders(line, obj), obj being the field named field of ps.
splitHeaders(ps, line, field) ==
  LET at(m) ==
        IF m > -1
        THEN [ps EXCEPT !.key = <<strTrim(slice(line, 0, m))>>,
                        ![field] = put(ps[field], strTrim(slice(line, 0, m)),
                                       strTrim(slice(line, m + 1, Len(line))))]
        ELSE IF ps.key = <<>> THEN fail(ps, "Missing MHTML headers")
        ELSE [ps EXCEPT ![field] = put(ps[field], ps.key[1],
                                       readForAppend(ps[field], ps.key[1])
                                         \o strTrim(line))]
  IN  at(indexOf(line, ":", 0))

\* obj[name] of a header object: <<>> when undefined.
header(obj, name) ==
  IF hasOwn(obj, name) THEN <<own(obj, name)>> ELSE <<>>

\* headers['Content-Type'].match(/boundary=(.*)/m): the rest of the line
\* after the first "boundary=", <<>> when there is none.
boundaryMatch(contentType) ==
  LET upTo(rest, end) == IF end = -1 THEN <<rest>> ELSE <<slice(rest, 0, end)>>
      lineOf(rest) == upTo(rest, firstOf({k \in 0..(Len(rest) - 1) :
                                            charAt(rest, k) \in {"\n", "\r"}}))
      from(k) == IF k = -1 THEN <<>> ELSE lineOf(slice(contentType, k + 9, Len(contentType)))
  IN  from(indexOf(contentType, "boundary=", 0))

\* case MHTML_FSM.MHTML_HEADERS
headersStep(ps) ==
  LET expect(q, next, boundary) ==
        IF q.status = "threw" THEN q
        ELSE IF ~includes(next, boundary) THEN fail(q, "Expected boundary")
        ELSE [q EXCEPT !.boundary = <<boundary>>, !.content = <<>>,
                       !.state = MTHML_CONTENT]
      second(got, boundary) == expect(got.ps, got.line, boundary)
      afterTrim(q, boundary) ==
        IF q.status = "threw" THEN q ELSE second(getLine(q, <<>>), boundary)
      matched(q, matches) ==
        IF matches = <<>> THEN fail(q, "Missing boundary from document headers")
        ELSE afterTrim(trim(q), replaceAll(matches[1], "\"", ""))
      typed(q, contentType) ==
        IF contentType = <<>> THEN fail(q, "Missing document content type")
        ELSE matched(q, boundaryMatch(contentType[1]))
      first(q, next) ==
        IF q.status = "threw" THEN q
        ELSE IF ~endsHeaders(next) THEN splitHeaders(q, next, "headers")
        ELSE typed(q, header(q.headers, "Content-Type"))
      line(got) == first(got.ps, got.line)
  IN  line(getLine(ps, <<>>))

\* case MHTML_FSM.MTHML_CONTENT without the assertion of line 369: the first
\* part is the index whatever its type and location.
contentStepAnyFirst(ps) ==
  LET data(q) ==
        IF q.status = "threw" THEN q
        ELSE [q EXCEPT !.content = <<>>, !.state = MHTML_DATA]
      register(q, type, id, location, n) ==
        [q EXCEPT !.assets = Append(q.assets, Asset(type[1], q.encoding[1], "", id)),
                  !.asset = n,
                  !.frames = IF id # <<>> THEN put(q.frames, id[1], n) ELSE q.frames,
                  !.media = IF location # <<>> /\ ~defined(q.media, location[1])
                            THEN put(q.media, location[1], n) ELSE q.media]
      checked(q, unset, type, id, location) ==
        IF ~(id # <<>> \/ location # <<>>)
        THEN fail(q, "ID or location header not provided")
        ELSE IF q.encoding = <<>>
        THEN fail(q, "Content-Transfer-Encoding not provided")
        ELSE IF type = <<>> THEN fail(q, "Content-Type not provided")
        ELSE data(trim(register(q, type, id, location, Len(q.assets) + 1)))
      headers(q, encoding, type, id, location) ==
        checked([q EXCEPT !.encoding = encoding,
                          !.index = IF q.index = <<>> THEN location ELSE q.index],
                q.index = <<>>, type, id, location)
      first(q, next) ==
        IF q.status = "threw" THEN q
        ELSE IF ~endsHeaders(next) THEN splitHeaders(q, next, "content")
        ELSE headers(q, header(q.content, "Content-Transfer-Encoding"),
                     header(q.content, "Content-Type"),
                     header(q.content, "Content-ID"),
                     header(q.content, "Content-Location"))
      line(got) == first(got.ps, got.line)
  IN  line(getLine(ps, <<>>))

\* case MHTML_FSM.MTHML_CONTENT
contentStep(ps) ==
  LET data(q) ==
        IF q.status = "threw" THEN q
        ELSE [q EXCEPT !.content = <<>>, !.state = MHTML_DATA]
      register(q, type, id, location, n) ==
        [q EXCEPT !.assets = Append(q.assets, Asset(type[1], q.encoding[1], "", id)),
                  !.asset = n,
                  !.frames = IF id # <<>> THEN put(q.frames, id[1], n) ELSE q.frames,
                  !.media = IF location # <<>> /\ ~defined(q.media, location[1])
                            THEN put(q.media, location[1], n) ELSE q.media]
      checked(q, unset, type, id, location) ==
        IF unset /\ ~(q.index # <<>> /\ type = <<"text/html">>)
        THEN fail(q, "Index not found")
        ELSE IF ~(id # <<>> \/ location # <<>>)
        THEN fail(q, "ID or location header not provided")
        ELSE IF q.encoding = <<>>
        THEN fail(q, "Content-Transfer-Encoding not provided")
        ELSE IF type = <<>> THEN fail(q, "Content-Type not provided")
        ELSE data(trim(register(q, type, id, location, Len(q.assets) + 1)))
      headers(q, encoding, type, id, location) ==
        checked([q EXCEPT !.encoding = encoding,
                          !.index = IF q.index = <<>> THEN location ELSE q.index],
                q.index = <<>>, type, id, location)
      first(q, next) ==
        IF q.status = "threw" THEN q
        ELSE IF ~endsHeaders(next) THEN splitHeaders(q, next, "content")
        ELSE headers(q, header(q.content, "Content-Transfer-Encoding"),
                     header(q.content, "Content-Type"),
                     header(q.content, "Content-ID"),
                     header(q.content, "Content-Location"))
      line(got) == first(got.ps, got.line)
  IN  line(getLine(ps, <<>>))

\* The while loop of MHTML_DATA: lines are appended to asset.data up to the
\* first line that includes the boundary.
RECURSIVE readBody(_)
readBody(ps) ==
  LET next(q, text) ==
        IF q.status = "threw" THEN q
        ELSE IF includes(text, q.boundary[1]) THEN q
        ELSE readBody([q EXCEPT !.assets[q.asset].data = @ \o text])
      line(got) == next(got.ps, got.line)
  IN  line(getLine(ps, ps.encoding))

\* case MHTML_FSM.MHTML_DATA with the state after a part set to
\* MHTML_HEADERS: the next part is read as document headers.
dataStepRestart(ps, htmlOnly) ==
  LET finish(q) ==
        IF htmlOnly /\ q.index # <<>> THEN [q EXCEPT !.status = "htmlOnly"]
        ELSE IF q.i >= Len(q.mhtml) - 1
        THEN [q EXCEPT !.state = MHTML_END, !.status = "returned"]
        ELSE [q EXCEPT !.state = MHTML_HEADERS]
      decode(q, decoded) ==
        finish(IF decoded.ok THEN [q EXCEPT !.assets[q.asset].data = decoded.v] ELSE q)
      body(q) ==
        IF q.status = "threw" THEN q
        ELSE decode(q, decodeUnicode(q.assets[q.asset].data))
  IN  body(readBody(ps))

\* case MHTML_FSM.MHTML_DATA with the end decided by the boundary line: a
\* line that closes with "--" ends the parse, whatever follows it.
dataStepClosing(ps, htmlOnly) ==
  LET closing(q) ==
        endsWith(strTrim(substring(q.mhtml, lastOf({k \in 0..(q.i - 2) :
                                                      charAt(q.mhtml, k) = "\n"}) + 1,
                                   q.i)),
                 "--")
      finish(q) ==
        IF htmlOnly /\ q.index # <<>> THEN [q EXCEPT !.status = "htmlOnly"]
        ELSE IF closing(q)
        THEN [q EXCEPT !.state = MHTML_END, !.status = "returned"]
        ELSE [q EXCEPT !.state = MTHML_CONTENT]
      decode(q, decoded) ==
        finish(IF decoded.ok THEN [q EXCEPT !.assets[q.asset].data = decoded.v] ELSE q)
      body(q) ==
        IF q.status = "threw" THEN q
        ELSE decode(q, decodeUnicode(q.assets[q.asset].data))
  IN  body(readBody(ps))

\* case MHTML_FSM.MHTML_DATA with htmlOnly looked at only once the text is
\* exhausted: every part is read, and parseDOM gets the body read last.
dataStepAtEnd(ps, htmlOnly) ==
  LET finish(q) ==
        IF ~(q.i >= Len(q.mhtml) - 1) THEN [q EXCEPT !.state = MTHML_CONTENT]
        ELSE IF htmlOnly /\ q.index # <<>> THEN [q EXCEPT !.status = "htmlOnly"]
        ELSE [q EXCEPT !.state = MHTML_END, !.status = "returned"]
      decode(q, decoded) ==
        finish(IF decoded.ok THEN [q EXCEPT !.assets[q.asset].data = decoded.v] ELSE q)
      body(q) ==
        IF q.status = "threw" THEN q
        ELSE decode(q, decodeUnicode(q.assets[q.asset].data))
  IN  body(readBody(ps))

\* case MHTML_FSM.MHTML_DATA
dataStep(ps, htmlOnly) ==
  LET finish(q) ==
        IF htmlOnly /\ q.index # <<>> THEN [q EXCEPT !.status = "htmlOnly"]
        ELSE IF q.i >= Len(q.mhtml) - 1
        THEN [q EXCEPT !.state = MHTML_END, !.status = "returned"]
        ELSE [q EXCEPT !.state = MTHML_CONTENT]
      decode(q, decoded) ==
        finish(IF decoded.ok THEN [q EXCEPT !.assets[q.asset].data = decoded.v] ELSE q)
      body(q) ==
        IF q.status = "threw" THEN q
        ELSE decode(q, decodeUnicode(q.assets[q.asset].data))
  IN  body(readBody(ps))

\* One iteration of while (state != MHTML_FSM.MHTML_END).
parseStep(ps, htmlOnly) ==
  IF ps.state = MHTML_HEADERS THEN headersStep(ps)
  ELSE IF ps.state = MTHML_CONTENT THEN contentStep(ps)
  ELSE dataStep(ps, htmlOnly)

\* An object of positions with its values taken from assets.
deref(obj, assets) ==
  [n \in 1..Len(obj) |-> [k |-> obj[n].k, v |-> assets[obj[n].v]]]

\* The value parse returns: { frames, media, index }; index is <<>> when
\* undefined, <<s>> for the string s.
archiveOf(ps) ==
  [frames |-> deref(ps.frames, ps.assets),
   media |-> deref(ps.media, ps.assets),
   index |-> ps.index]

\* parse run to its end on one text (the loop, iterated).
RECURSIVE parseRun(_, _)
parseRun(ps, htmlOnly) ==
  IF ps.status # "running" THEN ps ELSE parseRun(parseStep(ps, htmlOnly), htmlOnly)

(***************************************************************************)
(* The DOM the provider (parseDOM) returns.                                *)
(*                                                                         *)
(* A document is the sequence of its nodes; a node is known by its         *)
(* position, the document node is node 1.  A node has                      *)
(*   nodeType    1 element, 3 text, 8 comment, 9 document                  *)
(*   tagName     upper case for elements, "" otherwise                     *)
(*   attributes  [k, v] in order                                           *)
(*   childNodes  the positions of its children                             *)
(*   content     for a <template>: the children of its content fragment    *)
(*   data        the text of a text or comment node                        *)
(***************************************************************************)
ELEMENT_NODE ==
  1

TEXT_NODE ==
  3

COMMENT_NODE ==
  8

DOCUMENT_NODE ==
  9

Node(nodeType, tagName, attributes, data) ==
  [nodeType |-> nodeType, tagName |-> tagName, attributes |-> attributes,
   childNodes |-> <<>>, content |-> <<>>, data |-> data]

\* Trees as the pages of the model are written: El/Tx/Cm/Tpl nest freely.
El(tagName, attributes, kids) ==
  [node |-> Node(ELEMENT_NODE, tagName, attributes, ""), kids |-> kids, inner |-> <<>>]

Tpl(attributes, inner) ==
  [node |-> Node(ELEMENT_NODE, "TEMPLATE", attributes, ""), kids |-> <<>>, inner |-> inner]

Tx(data) ==
  [node |-> Node(TEXT_NODE, "", <<>>, data), kids |-> <<>>, inner |-> <<>>]

Cm(data) ==
  [node |-> Node(COMMENT_NODE, "", <<>>, data), kids |-> <<>>, inner |-> <<>>]

Attr(k, v) ==
  [k |-> k, v |-> v]

RECURSIVE addTree(_, _)
RECURSIVE addKids(_, _, _, _)

\* The document with the tree t added as new nodes; id is t's root.
addTree(dom, t) ==
  LET withInner(d, id) == [dom |-> addKids(d, id, "content", t.inner), id |-> id]
      withKids(d, id) == withInner(addKids(d, id, "childNodes", t.kids), id)
  IN  withKids(Append(dom, t.node), Len(dom) + 1)

addKids(dom, parent, field, kids) ==
  LET next(r) == addKids([r.dom EXCEPT ![parent][field] = Append(@, r.id)],
                         parent, field, Tail(kids))
  IN  IF Len(kids) = 0 THEN dom ELSE next(addTree(dom, kids[1]))

\* The document whose documentElement is the tree html.
Document(html) ==
  addKids(<<Node(DOCUMENT_NODE, "", <<>>, "")>>, 1, "childNodes", <<html>>)

isElement(dom, n) ==
  dom[n].nodeType = ELEMENT_NODE

\* element.children
children(dom, n) ==
  SelectSeq(dom[n].childNodes, LAMBDA m : isElement(dom, m))

hasAttribute(node, name) ==
  hasOwn(node.attributes, name)

\* getAttribute: <<>> for null, <<value>> otherwise.
getAttribute(node, name) ==
  IF hasOwn(node.attributes, name) THEN <<own(node.attributes, name)>> ELSE <<>>

setAttribute(node, name, value) ==
  [node EXCEPT !.attributes = put(@, name, value)]

removeAttribute(node, name) ==
  [node EXCEPT !.attributes = SelectSeq(@, LAMBDA a : a.k # name)]

\* A null or string used as a property name or in a string: String(x).
String(x) ==
  IF x = <<>> THEN "null" ELSE x[1]

\* The parent of node n, 0 when it has none.
parentNode(dom, n) ==
  Max2(0, firstOf({q \in 1..Len(dom) :
                     \E k \in 1..Len(dom[q].childNodes) : dom[q].childNodes[k] = n}))

removeFrom(seq, n) ==
  SelectSeq(seq, LAMBDA m : m # n)

\* parent.removeChild(n)
removeChild(dom, parent, n) ==
  [dom EXCEPT ![parent].childNodes = removeFrom(@, n)]

\* parent.replaceChild(new, old)
replaceChild(dom, parent, new, old) ==
  [dom EXCEPT ![parent].childNodes =
     [k \in 1..Len(@) |-> IF @[k] = old THEN new ELSE @[k]]]

\* parent.insertBefore(new, parent.firstChild)
insertFirst(dom, parent, new) ==
  [dom EXCEPT ![parent].childNodes = <<new>> \o @]

appendChild(dom, parent, new) ==
  [dom EXCEPT ![parent].childNodes = Append(@, new)]

\* node.cloneNode(true): a copy of n and its descendants as new nodes.
RECURSIVE cloneNode(_, _)
RECURSIVE cloneKids(_, _, _, _)
cloneNode(dom, n) ==
  LET withInner(d, id) == [dom |-> cloneKids(d, id, "content", dom[n].content), id |-> id]
      withKids(d, id) == withInner(cloneKids(d, id, "childNodes", dom[n].childNodes), id)
  IN  withKids(Append(dom, [dom[n] EXCEPT !.childNodes = <<>>, !.content = <<>>]),
               Len(dom) + 1)

cloneKids(dom, parent, field, kids) ==
  LET next(r) == cloneKids([r.dom EXCEPT ![parent][field] = Append(@, r.id)],
                           parent, field, Tail(kids))
  IN  IF Len(kids) = 0 THEN dom ELSE next(cloneNode(dom, kids[1]))

(***************************************************************************)
(* Serialisation (innerHTML, outerHTML) and the provider's parsing.        *)
(***************************************************************************)
VoidElements ==
  {"AREA", "BASE", "BR", "COL", "EMBED", "HR", "IMG", "INPUT", "LINK", "META",
   "SOURCE", "TRACK", "WBR"}

RawTextElements ==
  {"STYLE", "SCRIPT", "XMP", "IFRAME", "NOEMBED", "NOFRAMES", "PLAINTEXT"}

escapeAttr(v) ==
  replaceAll(replaceAll(v, "&", "&amp;"), "\"", "&quot;")

escapeText(v) ==
  replaceAll(replaceAll(replaceAll(v, "&", "&amp;"), "<", "&lt;"), ">", "&gt;")

serializeAttrs(attrs) ==
  join([n \in 1..Len(attrs) |->
          " " \o attrs[n].k \o "=\"" \o escapeAttr(attrs[n].v) \o "\""], "")

RECURSIVE outerHTML(_, _, _)

\* The serialisation of the nodes kids, whose parent has tag parentTag.
serializeAll(dom, kids, parentTag) ==
  join([k \in 1..Len(kids) |-> outerHTML(dom, kids[k], parentTag)], "")

\* The serialisation of node n, whose parent has tag parentTag.
outerHTML(dom, n, parentTag) ==
  LET element(node, tag) ==
        "<" \o tag \o serializeAttrs(node.attributes) \o ">"
          \o (IF node.tagName \in VoidElements THEN ""
              ELSE serializeAll(dom, IF node.tagName = "TEMPLATE" THEN node.content
                                     ELSE node.childNodes, node.tagName)
                     \o "</" \o tag \o ">")
      any(node) ==
        IF node.nodeType = TEXT_NODE
        THEN IF parentTag \in RawTextElements THEN node.data ELSE escapeText(node.data)
        ELSE IF node.nodeType = COMMENT_NODE THEN "<!--" \o node.data \o "-->"
        ELSE IF node.nodeType = DOCUMENT_NODE THEN serializeAll(dom, node.childNodes, "")
        ELSE element(node, toLowerCase(node.tagName))
  IN  any(dom[n])

\* element.innerHTML
innerHTML(dom, n) ==
  serializeAll(dom, IF dom[n].tagName = "TEMPLATE" THEN dom[n].content
                    ELSE dom[n].childNodes, dom[n].tagName)

\* document.documentElement.outerHTML
documentHTML(dom) ==
  outerHTML(dom, 1, "")

(***************************************************************************)
(* Helpers of convert.                                                     *)
(***************************************************************************)
\* s.replace(/<slot[^>]*>.*?<\/slot>/gi, '')
RECURSIVE removeSlots(_, _)
removeSlots(s, from) ==
  LET closed(k, g, e) ==
        IF e = -1 THEN s
        ELSE IF includes(slice(s, g + 1, e), "\n") \/ includes(slice(s, g + 1, e), "\r")
        THEN removeSlots(s, k + 1)
        ELSE removeSlots(slice(s, 0, k) \o slice(s, e + 7, Len(s)), k)
      opened(low, k, g) ==
        IF g = -1 THEN s ELSE closed(k, g, indexOf(low, "</slot>", g + 1))
      slot(low, k) ==
        IF k = -1 THEN s ELSE opened(low, k, indexOf(s, ">", k + 5))
      scan(low) == slot(low, indexOf(low, "<slot", from))
  IN  scan(toLowerCase(s))

\* s.replace(/<!--[\s\S]*?-->/g, '')
RECURSIVE removeComments(_)
removeComments(s) ==
  LET closed(k, e) ==
        IF e = -1 THEN s
        ELSE slice(s, 0, k) \o removeComments(slice(s, e + 3, Len(s)))
      comment(k) == IF k = -1 THEN s ELSE closed(k, indexOf(s, "-->", k + 4))
  IN  comment(indexOf(s, "<!--", 0))

isShadowTemplate(node) ==
  /\ node.tagName = "TEMPLATE"
  /\ (hasAttribute(node, "data-shadowrootmode") \/ hasAttribute(node, "data-shadowmode"))

\* The clones of the nodes of kids that are no comments, appended to element.
RECURSIVE appendClones(_, _, _)
appendClones(dom, element, kids) ==
  LET next(r) == appendClones(appendChild(r.dom, element, r.id), element, Tail(kids))
  IN  IF Len(kids) = 0 THEN dom
      ELSE IF dom[kids[1]].nodeType = COMMENT_NODE
      THEN appendClones(dom, element, Tail(kids))
      ELSE next(cloneNode(dom, kids[1]))

\* Process Declarative Shadow DOM templates: the document afterwards.
processDeclarativeShadowDOM(dom, element) ==
  LET unloaded(d) == [d EXCEPT ![element] = removeAttribute(@, "loaded")]
      flatten(shadowTemplate, hasOnlySlots, lightDOMChildren, removed) ==
        IF hasOnlySlots \/ Len(lightDOMChildren) > 0 THEN removed
        ELSE appendClones(removed, element, dom[shadowTemplate].content)
      content(kids, shadowTemplate, templateContent) ==
        unloaded(flatten(shadowTemplate,
                         strTrim(removeComments(removeSlots(templateContent, 0))) = "",
                         removeFrom(kids, shadowTemplate),
                         removeChild(dom, element, shadowTemplate)))
      template(kids, k) ==
        IF k = -1 THEN dom ELSE content(kids, kids[k], innerHTML(dom, kids[k]))
      search(kids) ==
        template(kids, firstOf({k \in 1..Len(kids) : isShadowTemplate(dom[kids[k]])}))
  IN  search(children(dom, element))

\* Converts the provided asset to a data URI based on the encoding.
convertAssetToDataURI(asset) ==
  LET base64(encoded) ==
        IF encoded.ok THEN Ok("data:" \o asset.type \o ";base64," \o encoded.v)
        ELSE encoded
  IN  IF asset.encoding = "quoted-printable"
      THEN Ok("data:" \o asset.type \o ";utf8," \o escape(QuotedPrintableDecode(asset.data)))
      ELSE IF asset.encoding = "base64"
      THEN Ok("data:" \o asset.type \o ";base64," \o asset.data)
      ELSE base64(Base64encode(asset.data))

\* updateInlineStyle through style.cssText of a CSSOM that knows no custom
\* properties: the declarations whose name begins with -- are dropped.
updateInlineStyleCssText(node, media, base) ==
  LET set(css) == IF ~css.ok THEN css ELSE Ok(setAttribute(node, "style", css.v))
      known(declarations) ==
        join(SelectSeq(declarations, LAMBDA d : ~startsWith(strTrim(d), "--")), ";")
      update(inlineStyle) ==
        IF inlineStyle = <<>> \/ inlineStyle = <<"">> THEN Ok(node)
        ELSE set(replaceReferences(media, base, known(split(inlineStyle[1], ";")),
                                   MaxCssDepth))
  IN  IF node.nodeType # ELEMENT_NODE THEN Ok(node)
      ELSE update(getAttribute(node, "style"))

\* Update inline styles: the node afterwards, or the error thrown.
updateInlineStyle(node, media, base) ==
  LET set(css) == IF ~css.ok THEN css ELSE Ok(setAttribute(node, "style", css.v))
      update(inlineStyle) ==
        IF inlineStyle = <<>> \/ inlineStyle = <<"">> THEN Ok(node)
        ELSE set(replaceReferences(media, base, inlineStyle[1], MaxCssDepth))
  IN  IF node.nodeType # ELEMENT_NODE THEN Ok(node)
      ELSE update(getAttribute(node, "style"))

(***************************************************************************)
(* JavaScript values handed to convert, with their typeof.                 *)
(***************************************************************************)
JsUndefined ==
  [t |-> "undefined", v |-> <<>>]

JsNull ==
  [t |-> "null", v |-> <<>>]

JsNumber(n) ==
  [t |-> "number", v |-> n]

JsString(str) ==
  [t |-> "string", v |-> str]

JsObject(obj) ==
  [t |-> "object", v |-> obj]

typeof(x) ==
  IF x.t = "null" THEN "object" ELSE x.t

\* The object { frames, media, index }.
Mhtml(frames, media, index) ==
  JsObject([frames |-> frames, media |-> media, index |-> index])

\* The archive parse returned, as the JavaScript object it is.
parsedObject(ps) ==
  Mhtml(JsObject(archiveOf(ps).frames), JsObject(archiveOf(ps).media),
        IF ps.index = <<>> THEN JsUndefined ELSE JsString(ps.index[1]))

(***************************************************************************)
(* convert.                                                                *)
(*                                                                         *)
(* The locals of one convert call are the record cv:                       *)
(*   mhtml, convertIframes   the arguments                                 *)
(*   frames, media, index    the fields read from mhtml                    *)
(*   dom                     the document parseDOM returned, as mutated    *)
(*   nodes                   the queue of nodes still to expand            *)
(*   childNode, k            the node whose childNodes forEach walks, and  *)
(*                           how many of them it has visited               *)
(*   href, src               the references of the last element visited    *)
(*   status, error           "validate", "walk", "returned", "threw"       *)
(***************************************************************************)
convertStart(mhtml, convertIframes) ==
  [mhtml |-> mhtml, convertIframes |-> convertIframes,
   frames |-> JsUndefined, media |-> <<>>, index |-> "",
   dom |-> <<>>, nodes |-> <<>>, childNode |-> 0, k |-> 0,
   href |-> <<>>, src |-> <<>>, status |-> "validate", error |-> ""]

raise(cv, error) ==
  [cv EXCEPT !.status = "threw", !.error = error]

\* .replace(/shadowrootmode=/gi, 'data-shadowrootmode=')
\* .replace(/shadowmode=/gi, 'data-shadowmode=')
renameShadowAttributes(html) ==
  replaceAllIgnoreCase(
    replaceAllIgnoreCase(html, "shadowrootmode=", "data-shadowrootmode="),
    "shadowmode=", "data-shadowmode=")

\* validate with media checked before frames: the order of lines 460 and
\* 461 exchanged.
validateMediaFirst(cv) ==
  LET frames == cv.mhtml.v.frames
      media == cv.mhtml.v.media
      index == cv.mhtml.v.index
  IN  IF typeof(cv.mhtml) # "object"
      THEN raise(cv, "Expected argument of type string or object")
      ELSE IF cv.mhtml.t = "null" THEN raise(cv, "TypeError")
      ELSE IF typeof(media) # "object" THEN raise(cv, "MHTML error: invalid media")
      ELSE IF typeof(frames) # "object" THEN raise(cv, "MHTML error: invalid frames")
      ELSE IF typeof(index) # "string" THEN raise(cv, "MHTML error: invalid index")
      ELSE IF media.t = "null" THEN raise(cv, "TypeError")
      ELSE IF ~(defined(media.v, index.v) /\ get(media.v, index.v).type = "text/html")
      THEN raise(cv, "MHTML error: invalid index")
      ELSE [cv EXCEPT !.frames = frames, !.media = media.v, !.index = index.v]

\* The checks of convert on its argument, up to the call of parseDOM:
\* the locals with frames, media and index read, or the error raised.
validate(cv) ==
  LET frames == cv.mhtml.v.frames
      media == cv.mhtml.v.media
      index == cv.mhtml.v.index
  IN  IF typeof(cv.mhtml) # "object"
      THEN raise(cv, "Expected argument of type string or object")
      ELSE IF cv.mhtml.t = "null" THEN raise(cv, "TypeError")
      ELSE IF typeof(frames) # "object" THEN raise(cv, "MHTML error: invalid frames")
      ELSE IF typeof(media) # "object" THEN raise(cv, "MHTML error: invalid media")
      ELSE IF typeof(index) # "string" THEN raise(cv, "MHTML error: invalid index")
      ELSE IF media.t = "null" THEN raise(cv, "TypeError")
      ELSE IF ~(defined(media.v, index.v) /\ get(media.v, index.v).type = "text/html")
      THEN raise(cv, "MHTML error: invalid index")
      ELSE [cv EXCEPT !.frames = frames, !.media = media.v, !.index = index.v]

\* The text convert hands to parseDOM.
htmlContent(cv) ==
  renameShadowAttributes(get(cv.media, cv.index).data)

\* documentElem.createElement(tag) with attributes set, as a new node.
createElement(dom, tagName, attributes) ==
  Append(dom, Node(ELEMENT_NODE, tagName, attributes, ""))

\* A new <style type="text/css"> holding one text node with css; its position
\* is Len(dom) + 1.
createStyle(dom, css) ==
  LET withStyle == createElement(dom, "STYLE", <<Attr("type", "text/css")>>)
      style == Len(withStyle)
      withText == Append(withStyle, Node(TEXT_NODE, "", <<>>, css))
  IN  appendChild(withText, style, Len(withText))

\* The child the forEach callback is about to receive.
currentChild(cv) ==
  cv.dom[cv.childNode].childNodes[cv.k + 1]

\* beforeSwitch without child.removeAttribute('integrity').
beforeSwitchKeep(cv) ==
  LET element(child) ==
        [cv EXCEPT !.href = getAttribute(cv.dom[child], "href"),
                   !.src = getAttribute(cv.dom[child], "src"),
                   !.dom = processDeclarativeShadowDOM(cv.dom, child)]
  IN  IF cv.dom[currentChild(cv)].nodeType # ELEMENT_NODE THEN cv
      ELSE element(currentChild(cv))

\* The callback up to its switch: href and src read, integrity removed,
\* a declarative shadow root flattened.
beforeSwitch(cv) ==
  LET element(child) ==
        [cv EXCEPT !.href = getAttribute(cv.dom[child], "href"),
                   !.src = getAttribute(cv.dom[child], "src"),
                   !.dom = processDeclarativeShadowDOM(
                             [cv.dom EXCEPT ![child] = removeAttribute(@, "integrity")],
                             child)]
  IN  IF cv.dom[currentChild(cv)].nodeType # ELEMENT_NODE THEN cv
      ELSE element(currentChild(cv))

\* nodes.push(child), and the forEach moves on.
pushChild(cv, child) ==
  [cv EXCEPT !.nodes = Append(@, child), !.k = @ + 1]

\* case 'HEAD' with the <base> appended: child.appendChild(base).
caseHEADAppend(cv, child) ==
  LET insert(withBase) ==
        pushChild([cv EXCEPT !.dom = appendChild(withBase, child, Len(withBase))], child)
  IN  insert(createElement(cv.dom, "BASE", <<Attr("target", "_parent")>>))

\* case 'HEAD'
caseHEAD(cv, child) ==
  LET insert(withBase) ==
        pushChild([cv EXCEPT !.dom = insertFirst(withBase, child, Len(withBase))], child)
  IN  insert(createElement(cv.dom, "BASE", <<Attr("target", "_parent")>>))

\* childNode.replaceChild(style, child) with a new <style> holding css, or
\* the error css is.
replaceByStyle(cv, child, css) ==
  IF ~css.ok THEN raise(cv, css.v)
  ELSE pushChild([cv EXCEPT !.dom = replaceChild(createStyle(cv.dom, css.v), cv.childNode,
                                                 Len(cv.dom) + 1, child)], child)

\* case 'LINK' with the stylesheet embedded as the archive holds it: neither
\* transfer-decoded nor rewritten.
caseLINKRaw(cv, child) ==
  IF ~(/\ getAttribute(cv.dom[child], "rel") = <<"stylesheet">>
       /\ defined(cv.media, String(cv.href))
       /\ get(cv.media, String(cv.href)).type = "text/css")
  THEN pushChild(cv, child)
  ELSE replaceByStyle(cv, child, Ok(get(cv.media, String(cv.href)).data))

\* case 'LINK'
caseLINK(cv, child) ==
  IF ~(/\ getAttribute(cv.dom[child], "rel") = <<"stylesheet">>
       /\ defined(cv.media, String(cv.href))
       /\ get(cv.media, String(cv.href)).type = "text/css")
  THEN pushChild(cv, child)
  ELSE replaceByStyle(cv, child, processCSS(cv.media, String(cv.href), MaxCssDepth))

\* case 'STYLE'
caseSTYLE(cv, child) ==
  replaceByStyle(cv, child,
                 replaceReferences(cv.media, cv.index, innerHTML(cv.dom, child),
                                   MaxCssDepth))

\* case 'IMG' without child.setAttribute('src', img): only the inline style
\* is rewritten.
caseIMGKeep(cv, child) ==
  LET done(styled) ==
        IF ~styled.ok THEN raise(cv, styled.v)
        ELSE pushChild([cv EXCEPT !.dom[child] = styled.v], child)
      image(known, entry) ==
        IF known /\ entry.inherited THEN raise(cv, "TypeError")
        ELSE done(updateInlineStyle(cv.dom[child], cv.media, cv.index))
  IN  image(defined(cv.media, String(cv.src)), get(cv.media, String(cv.src)))

\* case 'IMG'
caseIMG(cv, child) ==
  LET done(styled) ==
        IF ~styled.ok THEN raise(cv, styled.v)
        ELSE pushChild([cv EXCEPT !.dom[child] = styled.v], child)
      set(img) ==
        IF img.ok THEN setAttribute(cv.dom[child], "src", img.v) ELSE cv.dom[child]
      asset(entry) ==
        IF includes(entry.type, "image") THEN set(convertAssetToDataURI(entry))
        ELSE cv.dom[child]
      image(known, entry) ==
        IF known /\ entry.inherited THEN raise(cv, "TypeError")
        ELSE done(updateInlineStyle(IF known THEN asset(entry) ELSE cv.dom[child],
                                    cv.media, cv.index))
  IN  image(defined(cv.media, String(cv.src)), get(cv.media, String(cv.src)))

\* default:
caseDefault(cv, child) ==
  LET done(styled) ==
        IF ~styled.ok THEN raise(cv, styled.v)
        ELSE pushChild([cv EXCEPT !.dom[child] = styled.v], child)
  IN  done(updateInlineStyle(cv.dom[child], cv.media, cv.index))

\* `<${src.split('cid:')[1]}>`
frameId(src) ==
  LET id(parts) == "<" \o (IF Len(parts) > 1 THEN parts[2] ELSE "undefined") \o ">"
  IN  id(split(src, "cid:"))

\* case 'IFRAME': whether the callback calls convert for the frame.
entersFrame(cv) ==
  LET known(id) == defined(cv.frames.v, id) /\ get(cv.frames.v, id).type = "text/html"
  IN  /\ cv.convertIframes
      /\ cv.src # <<>> /\ cv.src # <<"">>
      /\ cv.frames.t = "object"
      /\ known(frameId(cv.src[1]))

\* case 'IFRAME' when no recursive call is made: src is read of frames
\* only under convertIframes with a src.
caseIFRAME(cv, child) ==
  IF cv.convertIframes /\ cv.src # <<>> /\ cv.src # <<"">> /\ cv.frames.t = "null"
  THEN raise(cv, "TypeError")
  ELSE pushChild(cv, child)

\* The argument of the recursive call:
\* { media: Object.assign({}, media, { [id] : frame }), frames, index: id }
frameArchive(cv) ==
  LET of(id) ==
        Mhtml(cv.frames, JsObject(put(cv.media, id, get(cv.frames.v, id))), JsString(id))
  IN  of(frameId(cv.src[1]))

\* afterFrame with the HTML of the frame put into the data URI as it is, not
\* percent-encoded.
afterFrameRaw(cv, child, iframe) ==
  pushChild([cv EXCEPT !.dom[child] =
               setAttribute(@, "src", "data:text/html;charset=utf-8,"
                                        \o documentHTML(iframe))],
            child)

\* child.src = `data:text/html;charset=utf-8,${encodeURIComponent(outerHTML)}`
\* once the recursive call has returned the document iframe.
afterFrame(cv, child, iframe) ==
  pushChild([cv EXCEPT !.dom[child] =
               setAttribute(@, "src", "data:text/html;charset=utf-8,"
                                        \o encodeURIComponent(documentHTML(iframe)))],
            child)

(***************************************************************************)
(* The inputs of the model: pages, resources, archives and MHTML texts.    *)
(***************************************************************************)
Html(headKids, bodyKids) ==
  El("HTML", <<>>, <<El("HEAD", <<>>, headKids), El("BODY", <<>>, bodyKids)>>)

IndexUrl ==
  "http://e/p/"

\* Stylesheet links: verbatim key, relative reference, alternate stylesheet,
\* base64 stylesheet.
PageLinks ==
  Html(<<El("LINK", <<Attr("rel", "stylesheet"), Attr("href", "http://e/s.css"),
                      Attr("integrity", "sha256-x")>>, <<>>),
         El("LINK", <<Attr("rel", "stylesheet"), Attr("href", "../s.css")>>, <<>>),
         El("LINK", <<Attr("rel", "alternate stylesheet"),
                      Attr("href", "http://e/s.css")>>, <<>>),
         El("LINK", <<Attr("rel", "stylesheet"), Attr("href", "http://e/b.css")>>, <<>>)>>,
       <<El("P", <<>>, <<Tx("Hello")>>)>>)

\* Images and inline styles.
PageImages ==
  Html(<<>>,
       <<El("IMG", <<Attr("src", "http://e/i/bg.png"),
                     Attr("style", "--x: 1; background: url(../i/bg.png)")>>, <<>>),
         El("IMG", <<Attr("src", "../i/bg.png")>>, <<>>),
         El("IMG", <<Attr("src", "http://e/o.svg")>>, <<>>),
         El("IMG", <<Attr("src", "http://e/q.svg")>>, <<>>),
         El("DIV", <<Attr("style", "--c: blue; color: var(--c)")>>, <<Tx("t")>>),
         El("P", <<Attr("style", "url(../i/bg.png) top")>>, <<>>),
         El("SCRIPT", <<Attr("src", "http://e/a.js"), Attr("integrity", "sha384-y")>>,
            <<>>)>>)

\* A <style> element with references of every kind.
PageStyle ==
  Html(<<El("STYLE", <<>>,
            <<Tx("a{b:url(../i/bg.png)} c{d:url('/s.css')} e{f:url(nope.gif)}")>>)>>,
       <<El("P", <<Attr("style", "color: red")>>, <<Tx("x")>>)>>)

\* Frames: one that is in the archive, one that is not, one that is no cid.
PageFrames ==
  Html(<<>>,
       <<El("IFRAME", <<Attr("src", "cid:f1"),
                        Attr("style", "border: url(../i/bg.png)")>>, <<>>),
         El("IFRAME", <<Attr("src", "cid:nope")>>, <<>>),
         El("IFRAME", <<Attr("src", "http://e/x")>>, <<>>)>>)

\* The document of frame <f1>.
PageInner ==
  Html(<<El("LINK", <<Attr("rel", "stylesheet"), Attr("href", "http://e/s.css")>>, <<>>)>>,
       <<El("IMG", <<Attr("src", "http://e/i/bg.png"), Attr("integrity", "i")>>, <<>>)>>)

\* Declarative shadow roots: slots only with light DOM; content without.
PageShadow ==
  Html(<<>>,
       <<El("X-MENU", <<Attr("loaded", "")>>,
            <<Tpl(<<Attr("data-shadowrootmode", "open")>>, <<El("SLOT", <<>>, <<>>)>>),
              El("A", <<Attr("integrity", "z")>>, <<Tx("l")>>)>>),
         El("X-CARD", <<>>,
            <<Tpl(<<Attr("data-shadowmode", "open")>>,
                  <<Cm("c"),
                    El("B", <<Attr("integrity", "q"),
                              Attr("style", "--d: 2; e: url(../i/bg.png)")>>,
                       <<Tx("s")>>)>>)>>)>>)

\* Declarative shadow roots: content around a slot with text as the only
\* light DOM; content with an element as light DOM.
PageShadowText ==
  Html(<<>>,
       <<El("X-BTN", <<Attr("loaded", "")>>,
            <<Tpl(<<Attr("data-shadowrootmode", "open")>>,
                  <<El("B", <<>>, <<El("SLOT", <<>>, <<>>)>>)>>),
              Tx("C")>>),
         El("X-TAB", <<>>,
            <<El("P", <<>>, <<>>),
              Tpl(<<Attr("data-shadowmode", "")>>, <<El("I", <<>>, <<>>)>>)>>)>>)

PageMinimal ==
  Html(<<>>, <<Tx("Hello")>>)

\* A link to a stylesheet that refers to itself.
PageCycle ==
  Html(<<El("LINK", <<Attr("rel", "stylesheet"), Attr("href", "http://e/c.css")>>, <<>>)>>,
       <<El("P", <<>>, <<Tx("x")>>)>>)

\* A <style> that refers to one of two stylesheets that refer to each other.
PageCyclePair ==
  Html(<<El("STYLE", <<>>, <<Tx("a{b:url(http://e/d.css)}")>>)>>,
       <<El("P", <<>>, <<Tx("x")>>)>>)

\* A <style> and an inline style that refer to a resource whose base64
\* payload is malformed, and to one that is sound.
PageUndecodable ==
  Html(<<El("STYLE", <<>>,
            <<Tx("a{b:url(http://e/m.png)} c{d:url(http://e/i/bg.png)}")>>)>>,
       <<El("P", <<Attr("style", "e: url(http://e/m.png)")>>, <<Tx("x")>>)>>)

\* A <style> that refers to a resource whose data Base64.encode rejects, and
\* to one that is sound.
PageUnencodable ==
  Html(<<El("STYLE", <<>>,
            <<Tx("a{b:url(http://e/o.svg)} c{d:url(http://e/i/bg.png)}")>>)>>,
       <<El("P", <<Attr("style", "e: url(http://e/o.svg)")>>, <<Tx("x")>>)>>)

\* A frame inside a frame: the page shows frame <f5>, whose document
\* (PageNested) shows frame <f1>.
PageOuter ==
  Html(<<>>, <<El("IFRAME", <<Attr("src", "cid:f5")>>, <<>>)>>)

PageNested ==
  Html(<<>>, <<El("P", <<>>, <<Tx("n")>>), El("IFRAME", <<Attr("src", "cid:f1")>>, <<>>)>>)

\* The document of frame <f2>, which shows frame <f2>.
PageSelf ==
  Html(<<>>, <<El("IFRAME", <<Attr("src", "cid:f2")>>, <<>>)>>)

\* The documents of frames <f3> and <f4>, each of which shows the other.
PageLoopA ==
  Html(<<>>, <<El("IFRAME", <<Attr("src", "cid:f4")>>, <<>>)>>)

PageLoopB ==
  Html(<<>>, <<El("IFRAME", <<Attr("src", "cid:f3")>>, <<>>)>>)

Pages ==
  <<PageLinks, PageImages, PageStyle, PageFrames, PageInner, PageShadow, PageMinimal,
    PageCycle, PageCyclePair, PageUndecodable, PageUnencodable,
    PageOuter, PageNested, PageSelf, PageLoopA, PageLoopB, PageShadowText>>

\* The document the DOM provider returns for a text: the page that
\* serialises to the text (white space around it aside), an empty page for
\* any other text.
parseDOM(html) ==
  LET page(pages, n) ==
        IF n = -1 THEN Document(Html(<<>>, <<>>)) ELSE Document(pages[n])
      among(pages, text) ==
        page(pages, firstOf({n \in 1..Len(pages) :
                               documentHTML(Document(pages[n])) = text}))
  IN  among(Pages, strTrim(html))

\* The HTML text of a page as the archive holds it.
htmlSource(page) ==
  replaceAll(replaceAll(documentHTML(Document(page)),
                        "data-shadowrootmode=", "shadowrootmode="),
             "data-shadowmode=", "shadowmode=")

\* The resources of the archives of the model, besides the index.
Resources ==
  << [k |-> "http://e/s.css",
      v |-> Asset("text/css", "quoted-printable", "b{c:url(i/bg.png)}", <<>>)],
     [k |-> "http://e/b.css",
      v |-> Asset("text/css", "base64", "Ym9keSB7IGNvbG9yOiBibHVlOyB9", <<>>)],
     [k |-> "http://e/i/bg.png", v |-> Asset("image/png", "base64", "YWI=", <<>>)],
     [k |-> "http://e/o.svg",
      v |-> Asset("image/svg+xml", "8bit", "<svg>Ω</svg>", <<>>)],
     [k |-> "http://e/q.svg",
      v |-> Asset("image/svg+xml", "quoted-printable", "<svg id=\"q\"/>", <<>>)] >>

Frames ==
  << [k |-> "<f1>", v |-> Asset("text/html", "binary", htmlSource(PageInner), <<"<f1>">>)],
     [k |-> "<f2>", v |-> Asset("text/html", "binary", htmlSource(PageSelf), <<"<f2>">>)],
     [k |-> "<f3>", v |-> Asset("text/html", "binary", htmlSource(PageLoopA), <<"<f3>">>)],
     [k |-> "<f4>", v |-> Asset("text/html", "binary", htmlSource(PageLoopB), <<"<f4>">>)],
     [k |-> "<f5>", v |-> Asset("text/html", "binary", htmlSource(PageNested), <<"<f5>">>)] >>

\* The parsed archive of a page with the resources and frames above.
ArchiveOf(page) ==
  Mhtml(JsObject(Frames),
        JsObject(<<[k |-> IndexUrl,
                    v |-> Asset("text/html", "binary", htmlSource(page), <<>>)]>>
                   \o Resources),
        JsString(IndexUrl))

\* Stylesheets that refer to themselves and to each other.
CycleResources ==
  << [k |-> "http://e/c.css", v |-> Asset("text/css", "binary", "a{b:url(c.css)}", <<>>)],
     [k |-> "http://e/d.css", v |-> Asset("text/css", "binary", "x{y:url(f.css)}", <<>>)],
     [k |-> "http://e/f.css",
      v |-> Asset("text/css", "quoted-printable", "x{y:url(d.css)}", <<>>)] >>

\* An image whose base64 payload is one character long.
MalformedResources ==
  << [k |-> "http://e/m.png", v |-> Asset("image/png", "base64", "Y", <<>>)] >>

\* The archive of a page with the resources more added.
ArchiveWith(page, more) ==
  Mhtml(ArchiveOf(page).v.frames,
        JsObject(ArchiveOf(page).v.media.v \o more),
        ArchiveOf(page).v.index)

\* The MHTML texts of the model.  nl is the line terminator.
Envelope(nl) ==
  "MIME-Version: 1.0" \o nl \o "Content-Type: multipart/related;" \o nl
    \o "\ttype=\"text/html\";" \o nl \o "\tboundary=\"--b\"" \o nl \o nl \o nl

Part(type, encoding, id, location, body, nl) ==
  "----b" \o nl \o "Content-Type: " \o type \o nl
    \o (IF id = "" THEN "" ELSE "Content-ID: " \o id \o nl)
    \o "Content-Transfer-Encoding: " \o encoding \o nl
    \o (IF location = "" THEN "" ELSE "Content-Location: " \o location \o nl)
    \o nl \o body \o nl

Closing(nl) ==
  "----b--" \o nl

CssPart(nl) ==
  Part("text/css", "quoted-printable", "", "http://e/s.css", "b{c:url(i/bg.png)}", nl)

Base64CssPart(nl) ==
  Part("text/css", "base64", "", "http://e/b.css",
       "Ym9keSB7IGNvbG9y" \o nl \o "OiBibHVlOyB9", nl)

PngPart(nl) ==
  Part("image/png", "base64", "", "http://e/i/bg.png", "YWI=", nl)

\* An SVG whose text holds the two UTF-8 bytes of an omega.
SvgPart(nl) ==
  Part("image/svg+xml", "8bit", "", "http://e/o.svg", "<svg>Î©</svg>", nl)

QpSvgPart(nl) ==
  Part("image/svg+xml", "quoted-printable", "", "http://e/q.svg", "<svg id=3D\"q\"/>", nl)

FramePart(nl) ==
  Part("text/html", "binary", "<f1>", "http://e/f", htmlSource(PageInner), nl)

\* The archive of a page as a text.
TextOf(page, nl) ==
  Envelope(nl) \o Part("text/html", "binary", "", IndexUrl, htmlSource(page), nl)
    \o CssPart(nl) \o Base64CssPart(nl) \o PngPart(nl) \o SvgPart(nl)
    \o QpSvgPart(nl) \o FramePart(nl) \o Closing(nl)

\* A text whose first part is located at a name of Object.prototype.
TextProtoLocation ==
  Envelope("\n") \o Part("text/html", "binary", "", "constructor",
                         htmlSource(PageMinimal), "\n")
    \o PngPart("\n") \o Closing("\n")

\* Texts parse rejects: charset in the first part's type, no newline at the
\* end, no Content-Type in the envelope, a first part that is no HTML.
TextCharset ==
  Envelope("\n") \o Part("text/html; charset=utf-8", "binary", "", IndexUrl,
                         htmlSource(PageMinimal), "\n") \o Closing("\n")

TextTruncated ==
  Envelope("\n") \o Part("text/html", "binary", "", IndexUrl,
                         htmlSource(PageMinimal), "\n") \o "----b--"

TextNoEnvelopeType ==
  "MIME-Version: 1.0\n\n" \o Part("text/html", "binary", "", IndexUrl,
                                  htmlSource(PageMinimal), "\n") \o Closing("\n")

TextCssFirst ==
  Envelope("\n") \o CssPart("\n")
    \o Part("text/html", "binary", "", IndexUrl, htmlSource(PageMinimal), "\n")
    \o Closing("\n")

\* Two parts at the index location; the second is a stylesheet.
TextDuplicate ==
  Envelope("\r\n") \o Part("text/html", "quoted-printable", "<f0>", IndexUrl,
                           htmlSource(PageMinimal), "\r\n")
    \o Part("text/css", "binary", "<f0>", IndexUrl, "p{}", "\r\n")
    \o Closing("\r\n")

\* The archives of the pages as texts, with LF and CRLF line ends in turn,
\* and the texts above.
Texts ==
  LET of(pages) ==
        [n \in 1..Len(pages) |-> TextOf(pages[n], IF n % 2 = 1 THEN "\n" ELSE "\r\n")]
  IN  of(Pages) \o <<TextProtoLocation, TextCharset, TextTruncated,
                     TextNoEnvelopeType, TextCssFirst, TextDuplicate>>

\* Arguments of convert that are no valid archive.
BadArchives ==
  << Mhtml(JsUndefined, JsUndefined, JsUndefined),
     Mhtml(JsObject(<<>>), JsUndefined, JsUndefined),
     Mhtml(JsObject(<<>>), JsObject(Resources), JsUndefined),
     Mhtml(JsObject(<<>>), JsObject(Resources), JsNumber(1)),
     Mhtml(JsObject(<<>>), JsObject(Resources), JsString(IndexUrl)),
     Mhtml(JsObject(<<>>), JsObject(Resources), JsString("http://e/s.css")),
     Mhtml(JsObject(<<>>), JsObject(<<>>), JsString("constructor")),
     Mhtml(JsString("f"), JsObject(Resources), JsString(IndexUrl)),
     Mhtml(JsObject(<<>>), JsString("m"), JsString(IndexUrl)),
     Mhtml(JsNull, JsNull, JsString(IndexUrl)),
     Mhtml(JsUndefined, JsObject(Resources), JsString("http://e/s.css")),
     JsNumber(7), JsNull >>

Call(api, arg, htmlOnly, convertIframes) ==
  [api |-> api, arg |-> arg, htmlOnly |-> htmlOnly, convertIframes |-> convertIframes]

\* The calls of the model: parse and convert on every text, convert on the
\* parsed archive of every page, without and with the resources of
\* CycleResources and of MalformedResources, and on every invalid argument.
Calls ==
  LET of(texts, pages, bad) ==
        [n \in 1..(2 * Len(texts)) |->
           Call("parse", JsString(texts[(n + 1) \div 2]), n % 2 = 0, FALSE)]
          \o [n \in 1..(2 * Len(texts)) |->
                Call("convert", JsString(texts[(n + 1) \div 2]), FALSE, n % 2 = 0)]
          \o [n \in 1..(2 * Len(pages)) |->
                Call("convert", ArchiveOf(pages[(n + 1) \div 2]), FALSE, n % 2 = 0)]
          \o [n \in 1..Len(pages) |->
                Call("convert", ArchiveWith(pages[n], CycleResources), FALSE, n % 2 = 0)]
          \o [n \in 1..Len(pages) |->
                Call("convert", ArchiveWith(pages[n], MalformedResources), FALSE,
                     n % 2 = 0)]
          \o [n \in 1..Len(bad) |-> Call("convert", bad[n], FALSE, FALSE)]
  IN  of(Texts, Pages, BadArchives)

(***************************************************************************)
(* The state machine: one call of parse or convert, run step by step.      *)
(*                                                                         *)
(*   call      the call made: api, argument and options                    *)
(*   pc        "call", "parse", "convert", "done"; "css", "rewritten" and  *)
(*             "find", "resolved" where a function runs on its own         *)
(*   ps        the locals of parse                                         *)
(*   cv        the locals of the running convert                           *)
(*   stack     the convert calls waiting for a frame, outermost first      *)
(*   result    what the call returned or threw                             *)
(*   domCalls  the number of calls of parseDOM so far                      *)
(*   frameLog  the frames converted so far: id, media, depth and the HTML  *)
(*             the nested call returned                                    *)
(***************************************************************************)
VARIABLES call, pc, ps, cv, stack, result, domCalls, frameLog

vars ==
  <<call, pc, ps, cv, stack, result, domCalls, frameLog>>

NoParse ==
  [parseStart("") EXCEPT !.status = "none"]

NoConvert ==
  [convertStart(JsUndefined, FALSE) EXCEPT !.status = "none"]

NoResult ==
  [kind |-> "none", v |-> <<>>]

Returned(kind, v) ==
  [kind |-> kind, v |-> v]

Init ==
  /\ LET among(calls) == \E n \in 1..Len(calls) : call = calls[n]
     IN  among(Calls)
  /\ pc = "call"
  /\ ps = NoParse
  /\ cv = NoConvert
  /\ stack = <<>>
  /\ result = NoResult
  /\ domCalls = 0
  /\ frameLog = <<>>

\* parse(mhtml) is entered, by the caller or by convert on a string;
\* convert on any other argument goes on to its checks.
Enter ==
  /\ pc = "call"
  /\ IF call.api = "parse" \/ typeof(call.arg) = "string"
     THEN /\ pc' = "parse"
          /\ ps' = parseStart(call.arg.v)
          /\ cv' = cv
     ELSE /\ pc' = "convert"
          /\ cv' = convertStart(call.arg, call.convertIframes)
          /\ ps' = ps
  /\ UNCHANGED <<call, stack, result, domCalls, frameLog>>

\* htmlOnly as parse sees it: convert passes no options.
htmlOnly ==
  call.api = "parse" /\ call.htmlOnly

ParseIteration(state, next) ==
  /\ pc = "parse"
  /\ ps.status = "running"
  /\ ps.state = state
  /\ ps' = next
  /\ UNCHANGED <<call, pc, cv, stack, result, domCalls, frameLog>>

ParseHeaders ==
  ParseIteration(MHTML_HEADERS, headersStep(ps))

ParseContent ==
  ParseIteration(MTHML_CONTENT, contentStep(ps))

ParseData ==
  ParseIteration(MHTML_DATA, dataStep(ps, htmlOnly))

\* parse throws: the call, be it parse or convert, ends with the error.
ParseThrow ==
  /\ pc = "parse"
  /\ ps.status = "threw"
  /\ pc' = "done"
  /\ result' = Returned("error", ps.error)
  /\ UNCHANGED <<call, ps, cv, stack, domCalls, frameLog>>

\* return parseDOM(asset.data) under htmlOnly.
ParseReturnDOM ==
  /\ pc = "parse"
  /\ ps.status = "htmlOnly"
  /\ pc' = "done"
  /\ result' = Returned("dom", parseDOM(ps.assets[ps.asset].data))
  /\ domCalls' = domCalls + 1
  /\ UNCHANGED <<call, ps, cv, stack, frameLog>>

\* return { frames, media, index }, to the caller or to convert.
ParseReturn ==
  /\ pc = "parse"
  /\ ps.status = "returned"
  /\ IF call.api = "parse"
     THEN /\ pc' = "done"
          /\ result' = Returned("archive", archiveOf(ps))
          /\ cv' = cv
     ELSE /\ pc' = "convert"
          /\ cv' = convertStart(parsedObject(ps), call.convertIframes)
          /\ result' = result
  /\ UNCHANGED <<call, ps, stack, domCalls, frameLog>>

\* A step of convert to the locals next: an exception ends the call, nested
\* calls included.
ConvertStep(next) ==
  /\ cv' = next
  /\ IF next.status = "threw"
     THEN /\ pc' = "done"
          /\ result' = Returned("error", next.error)
          /\ stack' = <<>>
     ELSE UNCHANGED <<pc, result, stack>>
  /\ UNCHANGED <<call, ps, frameLog>>

\* The checks of convert and, when they pass, the call of parseDOM.
ConvertValidate ==
  LET parsed(checked) ==
        IF checked.status = "threw"
        THEN ConvertStep(checked) /\ domCalls' = domCalls
        ELSE /\ ConvertStep([checked EXCEPT !.dom = parseDOM(htmlContent(checked)),
                                            !.nodes = <<1>>, !.status = "walk"])
             /\ domCalls' = domCalls + 1
  IN  /\ pc = "convert"
      /\ cv.status = "validate"
      /\ parsed(validate(cv))

\* The forEach of the node shifted last has a child left to visit.
visiting ==
  /\ pc = "convert"
  /\ cv.status = "walk"
  /\ cv.childNode # 0
  /\ cv.k < Len(cv.dom[cv.childNode].childNodes)

\* const childNode = nodes.shift()
Shift ==
  /\ pc = "convert"
  /\ cv.status = "walk"
  /\ ~visiting
  /\ cv.nodes # <<>>
  /\ cv' = [cv EXCEPT !.childNode = Head(cv.nodes), !.nodes = Tail(cv.nodes), !.k = 0]
  /\ UNCHANGED <<call, pc, ps, stack, result, domCalls, frameLog>>

\* The callback of forEach on a child whose tagName is in tags (or, with
\* other, in none of the cases of the switch).
CASES ==
  {"HEAD", "LINK", "STYLE", "IMG", "IFRAME"}

Visit(tags, other) ==
  /\ visiting
  /\ (cv.dom[currentChild(cv)].tagName \in CASES) = ~other
  /\ other \/ cv.dom[currentChild(cv)].tagName \in tags

VisitHEAD ==
  /\ Visit({"HEAD"}, FALSE)
  /\ ConvertStep(caseHEAD(beforeSwitch(cv), currentChild(cv)))
  /\ UNCHANGED domCalls

VisitLINK ==
  /\ Visit({"LINK"}, FALSE)
  /\ ConvertStep(caseLINK(beforeSwitch(cv), currentChild(cv)))
  /\ UNCHANGED domCalls

VisitSTYLE ==
  /\ Visit({"STYLE"}, FALSE)
  /\ ConvertStep(caseSTYLE(beforeSwitch(cv), currentChild(cv)))
  /\ UNCHANGED domCalls

VisitIMG ==
  /\ Visit({"IMG"}, FALSE)
  /\ ConvertStep(caseIMG(beforeSwitch(cv), currentChild(cv)))
  /\ UNCHANGED domCalls

VisitOther ==
  /\ Visit({}, TRUE)
  /\ ConvertStep(caseDefault(beforeSwitch(cv), currentChild(cv)))
  /\ UNCHANGED domCalls

\* case 'IFRAME' when no frame is converted.
VisitIFRAME ==
  LET skip(switched) ==
        /\ ~entersFrame(switched)
        /\ ConvertStep(caseIFRAME(switched, currentChild(cv)))
  IN  /\ Visit({"IFRAME"}, FALSE)
      /\ skip(beforeSwitch(cv))
      /\ UNCHANGED domCalls

\* EnterFrame with the frame assigned into the caller's media,
\* Object.assign(media, { [id] : frame }): the caller goes on with the media
\* the recursive call was given.
EnterFrameInPlace ==
  LET enter(switched) ==
        /\ entersFrame(switched)
        /\ IF Len(stack) >= MaxFrameDepth
           THEN ConvertStep(raise(switched, "RangeError"))
           ELSE /\ stack' = Append(stack, [switched EXCEPT
                                             !.media = frameArchive(switched).v.media.v])
                /\ cv' = convertStart(frameArchive(switched), cv.convertIframes)
                /\ UNCHANGED <<call, pc, ps, result, frameLog>>
  IN  /\ Visit({"IFRAME"}, FALSE)
      /\ enter(beforeSwitch(cv))
      /\ UNCHANGED domCalls

\* case 'IFRAME' when the frame is converted: the recursive call is made;
\* the call stack is exhausted at MaxFrameDepth calls.
EnterFrame ==
  LET enter(switched) ==
        /\ entersFrame(switched)
        /\ IF Len(stack) >= MaxFrameDepth
           THEN ConvertStep(raise(switched, "RangeError"))
           ELSE /\ stack' = Append(stack, switched)
                /\ cv' = convertStart(frameArchive(switched), cv.convertIframes)
                /\ UNCHANGED <<call, pc, ps, result, frameLog>>
  IN  /\ Visit({"IFRAME"}, FALSE)
      /\ enter(beforeSwitch(cv))
      /\ UNCHANGED domCalls

\* return dom of a recursive call: the caller sets child.src and goes on.
FrameReturn ==
  /\ pc = "convert"
  /\ cv.status = "walk"
  /\ ~visiting
  /\ cv.nodes = <<>>
  /\ stack # <<>>
  /\ cv' = afterFrame(last(stack), currentChild(last(stack)), cv.dom)
  /\ stack' = popped(stack)
  /\ frameLog' = Append(frameLog, [id |-> cv.index, media |-> cv.media,
                                   depth |-> Len(stack),
                                   html |-> documentHTML(cv.dom)])
  /\ UNCHANGED <<call, pc, ps, result, domCalls>>

\* return dom of the call the caller made.
ConvertReturn ==
  /\ pc = "convert"
  /\ cv.status = "walk"
  /\ ~visiting
  /\ cv.nodes = <<>>
  /\ stack = <<>>
  /\ pc' = "done"
  /\ cv' = [cv EXCEPT !.status = "returned"]
  /\ result' = Returned("dom", cv.dom)
  /\ UNCHANGED <<call, ps, stack, domCalls, frameLog>>

Next ==
  \/ Enter
  \/ ParseHeaders
  \/ ParseContent
  \/ ParseData
  \/ ParseThrow
  \/ ParseReturnDOM
  \/ ParseReturn
  \/ ConvertValidate
  \/ Shift
  \/ VisitHEAD
  \/ VisitLINK
  \/ VisitSTYLE
  \/ VisitIMG
  \/ VisitIFRAME
  \/ EnterFrame
  \/ FrameReturn
  \/ ConvertReturn
  \/ VisitOther

Spec ==
  Init /\ [][Next]_vars

(***************************************************************************)
(* The CSS rewriter on its own: replaceReferences applied to one text.     *)
(***************************************************************************)
\* The texts: a head (empty, so that the first url( stands at position 0,
\* or not), a reference of each kind, and a tail.
CssHeads ==
  <<"", "a{b:">>

\* Relative join, root-relative in quotes, unresolvable, verbatim key of a
\* stylesheet, filename tail, unresolvable with a short filename, verbatim
\* key that is longer than the data URI of its resource.
CssReferences ==
  <<"url(../i/bg.png)", "url('/s.css')", "url(nope.gif)", "url(http://e/b.css)",
    "url(\"bg.png\")", "url(a/x.y)", "url(http://e/static/img/sprites/dot.gif)">>

CssTails ==
  <<"", " c ", "} e{f:url(nope.gif)}", " url(../i/bg.png)", " url(">>

CssBases ==
  <<IndexUrl, "http://e/s.css">>

\* An image of one byte at a long location.
SmallResources ==
  << [k |-> "http://e/static/img/sprites/dot.gif",
      v |-> Asset("image/gif", "base64", "YQ==", <<>>)] >>

\* The resource tables: the archive of a page, an empty one, and the
\* archive of a page with the image above.
CssMedia ==
  <<ArchiveOf(PageMinimal).v.media.v, <<>>,
    ArchiveOf(PageMinimal).v.media.v \o SmallResources>>

CssInput(css, base, media) ==
  [css |-> css, base |-> base, media |-> media]

InitCSS ==
  /\ \E h \in 1..Len(CssHeads), r \in 1..Len(CssReferences), e \in 1..Len(CssTails),
        b \in 1..Len(CssBases), m \in 1..Len(CssMedia) :
       call = Call("css", CssInput(CssHeads[h] \o CssReferences[r] \o CssTails[e],
                                   CssBases[b], CssMedia[m]), FALSE, FALSE)
  /\ pc = "css"
  /\ ps = NoParse
  /\ cv = NoConvert
  /\ stack = <<>>
  /\ result = NoResult
  /\ domCalls = 0
  /\ frameLog = <<>>

\* replaceReferences(media, base, css) returns, or throws.
RewriteCSS ==
  LET returned(css) ==
        result' = Returned(IF css.ok THEN "css" ELSE "error", css.v)
  IN  /\ pc = "css"
      /\ pc' = "rewritten"
      /\ returned(replaceReferences(call.arg.media, call.arg.base, call.arg.css,
                                    MaxCssDepth))
      /\ UNCHANGED <<call, ps, cv, stack, domCalls, frameLog>>

NextCSS ==
  RewriteCSS

SpecCSS ==
  InitCSS /\ [][NextCSS]_vars

(***************************************************************************)
(* parse on its own: MHTML texts written line by line.                     *)
(*                                                                         *)
(* A text is a list of lines and a way of ending them; a head runs from    *)
(* the document headers to the last body line of the first part, a tail    *)
(* from the boundary line after it to the end of the text.                 *)
(***************************************************************************)
\* The ways of ending lines: LF, CRLF, and three mixtures.
Endings ==
  <<"lf", "crlf", "odd", "even", "third">>

\* The terminator of line k.
terminator(ending, k) ==
  IF \/ ending = "crlf"
     \/ ending = "odd" /\ k % 2 = 1
     \/ ending = "even" /\ k % 2 = 0
     \/ ending = "third" /\ k % 3 = 0
  THEN "\r\n" ELSE "\n"

\* The lines, each with its terminator.
Written(lines, ending) ==
  join([k \in 1..Len(lines) |-> lines[k] \o terminator(ending, k)], "")

\* The lines, the last one left without its terminator: a text that ends
\* in the middle of a line.
Unfinished(lines, ending) ==
  join([k \in 1..Len(lines) |->
          lines[k] \o (IF k = Len(lines) THEN "" ELSE terminator(ending, k))], "")

EnvelopeLines ==
  <<"MIME-Version: 1.0", "Content-Type: multipart/related;",
    "\ttype=\"text/html\";", "\tboundary=\"--b\"", "", "">>

\* The header lines of a part ("" for a header the part does not carry),
\* the blank line and the body lines.
PartLines(type, encoding, id, location, body) ==
  (IF type = "" THEN <<>> ELSE <<"Content-Type: " \o type>>)
    \o (IF id = "" THEN <<>> ELSE <<"Content-ID: " \o id>>)
    \o (IF encoding = "" THEN <<>> ELSE <<"Content-Transfer-Encoding: " \o encoding>>)
    \o (IF location = "" THEN <<>> ELSE <<"Content-Location: " \o location>>)
    \o <<"">> \o body

\* The body of the index: the minimal page in quoted-printable, with a soft
\* line break.
IndexBody ==
  <<"<html><head></head><body>Hel=", "lo</body></html>">>

IndexLines ==
  <<"----b">> \o PartLines("text/html", "quoted-printable", "", IndexUrl, IndexBody)

\* The heads parse accepts: the envelope and the index part; the second
\* with an unquoted boundary on the line of the Content-Type.
Heads ==
  << EnvelopeLines \o IndexLines,
     <<"Content-Type: multipart/related; boundary=--b", "">> \o IndexLines >>

\* The heads of claim C16, in its order: no Content-Type in the document
\* headers (twice: no such header, no header at all but MIME-Version), no
\* boundary parameter, a first line that is no boundary line, a first part
\* whose type is not "text/html" (a stylesheet; text/html written with a
\* charset parameter, another type to the comparison of line 369), a first
\* part with no Content-Location.
RejectedHeads ==
  << <<"MIME-Version: 1.0", "Subject: s", "", "">> \o IndexLines,
     <<"MIME-Version: 1.0", "", "">> \o IndexLines,
     <<"MIME-Version: 1.0", "Content-Type: multipart/related;",
       "\ttype=\"text/html\"", "", "">> \o IndexLines,
     EnvelopeLines \o <<"This is a multi-part message.", "">> \o IndexLines,
     EnvelopeLines \o <<"----b">>
       \o PartLines("text/css", "binary", "", "http://e/s.css", <<"a{}">>)
       \o IndexLines,
     EnvelopeLines \o <<"----b">>
       \o PartLines("text/html; charset=utf-8", "quoted-printable", "", IndexUrl,
                    IndexBody),
     EnvelopeLines \o <<"----b">>
       \o PartLines("text/html", "quoted-printable", "<f0>", "", IndexBody) >>

ClosingLines ==
  <<"----b--">>

CssLines(type, encoding, location, body) ==
  <<"----b">> \o PartLines(type, encoding, "", location, body)

PngLines ==
  <<"----b">>
    \o PartLines("image/png", "base64", "", "http://e/i/bg.png", <<"YW", "I=">>)

\* The tails that are well formed: no further part; a stylesheet and an
\* image; three parts at one location; two parts at a location that names
\* a member of Object.prototype; stylesheets whose type carries a charset.
Tails ==
  << ClosingLines,
     CssLines("text/css", "8bit", "http://e/s.css", <<"a{b:c}", "", "d{e:f}">>)
       \o PngLines \o ClosingLines,
     CssLines("text/css", "quoted-printable", "http://e/s.css", <<"a{b:=", "c}">>)
       \o CssLines("image/png", "base64", "http://e/s.css", <<"YWI=">>)
       \o CssLines("text/css", "binary", "http://e/s.css", <<"d{}">>)
       \o ClosingLines,
     CssLines("text/css", "binary", "toString", <<"a{}">>)
       \o CssLines("text/css", "binary", "toString", <<"d{}">>)
       \o ClosingLines,
     CssLines("text/css; charset=utf-8", "binary", "http://e/s.css", <<"a{}">>)
       \o CssLines("text/css; charset=\"windows-1252\"", "binary", "http://e/t.css",
                   <<"d{}">>)
       \o ClosingLines >>

\* The tails with a part that lacks a header: Content-Transfer-Encoding,
\* Content-Type, both Content-ID and Content-Location; each followed by a
\* part that lacks none.
LackingTails ==
  << CssLines("text/css", "", "http://e/s.css", <<"a{}">>) \o PngLines \o ClosingLines,
     CssLines("", "binary", "http://e/s.css", <<"a{}">>) \o PngLines \o ClosingLines,
     CssLines("text/css", "binary", "", <<"a{}">>) \o PngLines \o ClosingLines >>

\* The tails the text ends in the middle of: in a header line of the second
\* part, after its header block, in a line of its body, after a line of its
\* body.
EndingTails ==
  << <<"----b", "Content-Type: text/css", "Content-Transfer-Enc">>,
     <<"----b">> \o PartLines("text/css", "binary", "", "http://e/s.css", <<>>),
     CssLines("text/css", "binary", "http://e/s.css", <<"a{b:c}", "d{e">>),
     CssLines("text/css", "binary", "http://e/s.css", <<"a{b:c}", "d{e:f}">>) >>

\* A tail with one resource of each transfer encoding: an SVG in
\* quoted-printable whose text holds an escaped "=" before two digits, an
\* image in base64, a stylesheet in 7bit.
EncodedTails ==
  << CssLines("image/svg+xml", "quoted-printable", "http://e/w.svg",
              <<"<svg width=3D41></svg>">>)
       \o PngLines
       \o CssLines("text/css", "7bit", "http://e/s.css", <<"a{b:c}">>)
       \o ClosingLines >>

\* Tails in which the lines that hold the boundary are not an inner
\* boundary after each part and a closing one at the end: a closing
\* boundary with a part after it; a body line that holds the boundary token
\* in the middle; an inner boundary as the last line of the text.
BoundaryTails ==
  << CssLines("text/css", "binary", "http://e/s.css", <<"a{b:c}">>)
       \o ClosingLines \o PngLines \o ClosingLines,
     CssLines("text/css", "binary", "http://e/s.css", <<"a{b:c}", "d{e:\"x----by\"}", "f{}">>)
       \o PngLines \o ClosingLines,
     CssLines("text/css", "quoted-printable", "http://e/s.css", <<"a{b:=", "c}">>)
       \o PngLines \o <<"----b">> >>

\* The texts of the model, by kind.
AcceptedTexts ==
  LET of(heads, tails, endings) ==
        [n \in 1..(Len(heads) * Len(tails) * Len(endings)) |->
           Written(heads[(n - 1) \div (Len(tails) * Len(endings)) + 1]
                     \o tails[(((n - 1) \div Len(endings)) % Len(tails)) + 1],
                   endings[((n - 1) % Len(endings)) + 1])]
  IN  of(<<Heads[1]>>, Tails, Endings) \o of(<<Heads[2]>>, Tails, <<"lf", "crlf">>)

RejectedTexts ==
  [n \in 1..(2 * Len(RejectedHeads)) |->
     Written(RejectedHeads[(n + 1) \div 2] \o Tails[2],
             IF n % 2 = 1 THEN "lf" ELSE "crlf")]

LackingTexts ==
  [n \in 1..(2 * Len(LackingTails)) |->
     Written(Heads[1] \o LackingTails[(n + 1) \div 2],
             IF n % 2 = 1 THEN "lf" ELSE "crlf")]

\* The texts that end early: in the body of the index, in its header block,
\* and in the tails above; the line the text ends in is unfinished, or (for
\* the second and the fourth tail, and with CRLF) finished.
EndingTexts ==
  << Unfinished(EnvelopeLines \o IndexLines, "lf"),
     Unfinished(EnvelopeLines \o <<"----b", "Content-Type: text/html">>, "lf"),
     Unfinished(Heads[1] \o EndingTails[1], "lf"),
     Written(Heads[1] \o EndingTails[2], "lf"),
     Unfinished(Heads[1] \o EndingTails[3], "lf"),
     Written(Heads[1] \o EndingTails[4], "lf"),
     Unfinished(Heads[1] \o EndingTails[1], "crlf"),
     Written(Heads[1] \o EndingTails[4], "crlf") >>

EncodedTexts ==
  [n \in 1..(2 * Len(EncodedTails)) |->
     Written(Heads[1] \o EncodedTails[(n + 1) \div 2],
             IF n % 2 = 1 THEN "lf" ELSE "crlf")]

\* Header blocks with folded lines that hold a colon: in the document
\* headers (a Subject folded before "t: u"), and in the headers of a part
\* (a Content-Location folded before its URL).
FoldedHead ==
  <<"MIME-Version: 1.0", "Subject: s", " t: u", "Content-Type: multipart/related;",
    "\tboundary=\"--b\"", "", "">> \o IndexLines

FoldedTail ==
  <<"----b", "Content-Type: text/css", "Content-Transfer-Encoding: binary",
    "Content-Location:", " http://e/s.css", "", "a{}">> \o ClosingLines

FoldedTexts ==
  << Written(FoldedHead \o Tails[2], "lf"), Written(FoldedHead \o Tails[2], "crlf"),
     Written(Heads[1] \o FoldedTail, "lf"), Written(Heads[1] \o FoldedTail, "crlf") >>

BoundaryTexts ==
  [n \in 1..(2 * Len(BoundaryTails)) |->
     Written(Heads[1] \o BoundaryTails[(n + 1) \div 2],
             IF n % 2 = 1 THEN "lf" ELSE "crlf")]

ParseTexts ==
  AcceptedTexts \o RejectedTexts \o LackingTexts \o EndingTexts \o EncodedTexts
    \o BoundaryTexts \o FoldedTexts

\* parse called on every text, with and without htmlOnly.
ParseCalls ==
  LET of(texts) ==
        [n \in 1..(2 * Len(texts)) |->
           Call("parse", JsString(texts[(n + 1) \div 2]), n % 2 = 0, FALSE)]
  IN  of(ParseTexts)

InitParse ==
  /\ LET among(calls) == \E n \in 1..Len(calls) : call = calls[n]
     IN  among(ParseCalls)
  /\ pc = "call"
  /\ ps = NoParse
  /\ cv = NoConvert
  /\ stack = <<>>
  /\ result = NoResult
  /\ domCalls = 0
  /\ frameLog = <<>>

NextParse ==
  \/ Enter
  \/ ParseHeaders
  \/ ParseContent
  \/ ParseData
  \/ ParseThrow
  \/ ParseReturnDOM
  \/ ParseReturn

SpecParse ==
  InitParse /\ [][NextParse]_vars

(***************************************************************************)
(* The URL resolver on its own: findAsset applied to one reference.        *)
(***************************************************************************)
\* References: a verbatim key, bare and quoted; relative paths with "..",
\* "." and neither; root-relative paths; paths and names that only the
\* filename can match, as a whole segment or as the end of one; a file name
\* of three characters; a name no key ends with; names of members of
\* Object.prototype.
FindReferences ==
  <<"http://e/i/bg.png", "\"http://e/i/bg.png\"", "../i/bg.png", "./i/bg.png",
    "i/bg.png", "/i/bg.png", "'/s.css'", "x/y/bg.png", "bg.png", "g.png", "n/1234",
    "a/x.y", "nope.gif", "toString", "a/constructor">>

\* Bases: the index, a stylesheet at the root and one two directories
\* down, and a path that is no URL.
FindBases ==
  <<IndexUrl, "http://e/s.css", "http://e/a/b/c.css", "p/q.css">>

\* A resource table in which the strategies find different entries for one
\* reference, and in which file names end several keys: as a whole segment,
\* as the end of a segment, as the whole key; one file name is three
\* characters long.
FindResources ==
  << [k |-> "http://e/p/i/bg.png", v |-> Asset("image/png", "base64", "cA==", <<>>)],
     [k |-> "http://e/i/xbg.png", v |-> Asset("image/png", "base64", "eA==", <<>>)],
     [k |-> "http://e/i/bg.png", v |-> Asset("image/png", "base64", "YWI=", <<>>)],
     [k |-> "bg.png", v |-> Asset("image/png", "base64", "Yg==", <<>>)],
     [k |-> "http://e/n/1234", v |-> Asset("image/png", "base64", "bg==", <<>>)],
     [k |-> "1234", v |-> Asset("image/png", "base64", "MQ==", <<>>)],
     [k |-> "http://e/s.css", v |-> Asset("text/css", "binary", "a{}", <<>>)],
     [k |-> "http://e/a/x.y", v |-> Asset("image/png", "base64", "eQ==", <<>>)] >>

\* The resource tables: the archive of a page, the table above, an empty
\* one.
FindMedia ==
  <<ArchiveOf(PageMinimal).v.media.v, FindResources, <<>> >>

FindInput(reference, base, media) ==
  [reference |-> reference, base |-> base, media |-> media]

InitFind ==
  /\ \E r \in 1..Len(FindReferences), b \in 1..Len(FindBases), m \in 1..Len(FindMedia) :
       call = Call("findAsset", FindInput(FindReferences[r], FindBases[b], FindMedia[m]),
                   FALSE, FALSE)
  /\ pc = "find"
  /\ ps = NoParse
  /\ cv = NoConvert
  /\ stack = <<>>
  /\ result = NoResult
  /\ domCalls = 0
  /\ frameLog = <<>>

\* findAsset(media, base, reference) returns { path, entry } or null.
Resolve ==
  /\ pc = "find"
  /\ pc' = "resolved"
  /\ result' = Returned("found",
                        findAsset(call.arg.media, call.arg.base, call.arg.reference))
  /\ UNCHANGED <<call, ps, cv, stack, domCalls, frameLog>>

NextFind ==
  Resolve

SpecFind ==
  InitFind /\ [][NextFind]_vars

(***************************************************************************)
(* The claims.                                                             *)
(***************************************************************************)
\* The call has ended with the value parse returns without htmlOnly.
parseReturned ==
  pc = "done" /\ call.api = "parse" /\ result.kind = "archive"

\* The call has ended with the document convert returns.
convertReturned ==
  pc = "done" /\ call.api = "convert" /\ result.kind = "dom"

\* C1: for every MHTML text on which parse (htmlOnly = false) returns an
\* archive A, A.index is a key of A.media and A.media[A.index].type is
\* "text/html".
C1_IndexIsHtmlInMedia ==
  parseReturned =>
    /\ result.v.index # <<>>
    /\ hasOwn(result.v.media, result.v.index[1])
    /\ own(result.v.media, result.v.index[1]).type = "text/html"

\* convert was called with an already-parsed object.
objectArgument ==
  call.api = "convert" /\ call.arg.t = "object"

\* The message of the first of the four requirements the argument fails,
\* in the order frames, media, index, media[index]; "" when it meets all.
\* (A null media is an object to typeof; reading media[index] of it is a
\* TypeError.)
firstFailure(frames, media, index) ==
  IF typeof(frames) # "object" THEN "MHTML error: invalid frames"
  ELSE IF typeof(media) # "object" THEN "MHTML error: invalid media"
  ELSE IF typeof(index) # "string" THEN "MHTML error: invalid index"
  ELSE IF media.t = "null" THEN "TypeError"
  ELSE IF ~hasOwn(media.v, index.v) THEN "MHTML error: invalid index"
  ELSE IF own(media.v, index.v).type # "text/html" THEN "MHTML error: invalid index"
  ELSE ""

\* The argument is {}: frames, media and index are undefined.
emptyObject ==
  /\ objectArgument
  /\ call.arg.v.frames.t = "undefined"
  /\ call.arg.v.media.t = "undefined"
  /\ call.arg.v.index.t = "undefined"

expectedError ==
  firstFailure(call.arg.v.frames, call.arg.v.media, call.arg.v.index)

\* C2: convert called with an already-parsed object whose frames is not an
\* object, whose media is not an object, whose index is not a string, or
\* whose media[index] is missing or not of type "text/html" never reaches
\* the walk of the document and never calls parseDOM, and ends with the
\* error of the first requirement failed, in that order; convert({}) ends
\* with 'MHTML error: invalid frames'.
C2_InvalidArchiveRaisesBeforeParseDOM ==
  (objectArgument /\ expectedError # "") =>
    /\ domCalls = 0
    /\ pc \in {"call", "convert", "done"}
    /\ cv.status \in {"none", "validate", "threw"}
    /\ pc = "done" => result = Returned("error", expectedError)
    /\ (pc = "done" /\ emptyObject) => result.v = "MHTML error: invalid frames"

\* convert({}) has ended with 'MHTML error: invalid frames'.
C2_Witness ==
  /\ pc = "done"
  /\ emptyObject
  /\ result = Returned("error", "MHTML error: invalid frames")
  /\ domCalls = 0

\* The document convert got from parseDOM, before the walk.
original ==
  parseDOM(htmlContent(cv))

\* The nodes of a document reachable from node n through childNodes.
RECURSIVE descendants(_, _)
descendants(dom, n) ==
  {n} \cup UNION {descendants(dom, dom[n].childNodes[k]) :
                    k \in 1..Len(dom[n].childNodes)}

\* The nodes of the document: the document node and what hangs below it.
inDocument(dom) ==
  descendants(dom, 1)

\* The <link rel="stylesheet" href=...> elements of the document convert
\* started from.
stylesheetLinks(dom) ==
  {n \in inDocument(dom) :
     /\ dom[n].tagName = "LINK"
     /\ getAttribute(dom[n], "rel") = <<"stylesheet">>
     /\ getAttribute(dom[n], "href") # <<>>}

\* The children of node p in the returned document, the <base> convert
\* created left out.
keptChildren(dom, p, created) ==
  SelectSeq(dom[p].childNodes, LAMBDA m : ~(m > created /\ dom[m].tagName = "BASE"))

\* Node s is a <style> element holding exactly the text css.
isStyleWith(dom, s, css) ==
  /\ dom[s].tagName = "STYLE"
  /\ Len(dom[s].childNodes) = 1
  /\ dom[dom[s].childNodes[1]].nodeType = TEXT_NODE
  /\ dom[dom[s].childNodes[1]].data = css

\* In the returned document out, the link n of the document before stands
\* replaced by a <style> with the text css: n is no longer in the document,
\* and its place among its parent's children holds that <style>.
replacedByStyle(before, out, n, css) ==
  LET p == parentNode(before, n)
      k == CHOOSE j \in 1..Len(before[p].childNodes) : before[p].childNodes[j] = n
      kept == keptChildren(out, p, Len(before))
  IN  /\ n \notin inDocument(out)
      /\ Len(kept) = Len(before[p].childNodes)
      /\ kept[k] > Len(before)
      /\ isStyleWith(out, kept[k], css)

\* The CSS rewriter's output over the transfer-decoded text of the
\* stylesheet at path (its text when the decoding and the rewriting work).
rewrittenStylesheet(media, path) ==
  replaceReferences(media, path, decodeEntry(get(media, path)).v, MaxCssDepth).v

\* C3 as stated: after convert, every <link rel="stylesheet"> whose href
\* resolves through the URL resolver (base = the index) to a text/css
\* resource has been replaced by a <style> whose text is the CSS rewriter's
\* output over the decoded stylesheet.
C3_ResolvedLinksReplaced ==
  convertReturned =>
    \A before \in {original} : \A n \in stylesheetLinks(before) :
      \A found \in {findAsset(cv.media, cv.index, getAttribute(before[n], "href")[1])} :
        (found.found /\ found.entry.type = "text/css")
          => replacedByStyle(before, result.v, n,
                             rewrittenStylesheet(cv.media, found.path))

\* C3 as amended: after convert, every <link rel="stylesheet"> whose href
\* is, verbatim, the key of a text/css resource of media has been replaced
\* by a <style> whose text is the CSS rewriter's output over the decoded
\* stylesheet, and is no longer in the document.
C3_VerbatimLinksReplaced ==
  convertReturned =>
    \A before \in {original} : \A n \in stylesheetLinks(before) :
      \A href \in {getAttribute(before[n], "href")[1]} :
        (hasOwn(cv.media, href) /\ own(cv.media, href).type = "text/css")
          => replacedByStyle(before, result.v, n,
                             rewrittenStylesheet(cv.media, href))

\* A link to a base64 stylesheet stands replaced by the decoded CSS, and a
\* link to a stylesheet with a reference by the rewritten CSS.
C3_Witness ==
  /\ convertReturned
  /\ \E before \in {original} :
       /\ \E n \in stylesheetLinks(before) :
            /\ getAttribute(before[n], "href") = <<"http://e/b.css">>
            /\ own(cv.media, "http://e/b.css").encoding = "base64"
            /\ replacedByStyle(before, result.v, n, "body { color: blue; }")
       /\ \E n \in stylesheetLinks(before) :
            /\ getAttribute(before[n], "href") = <<"http://e/s.css">>
            /\ replacedByStyle(before, result.v, n,
                               "b{c:url('data:image/png;base64,YWI=')}")

\* The <img src=...> elements of a document.
images(dom) ==
  {n \in inDocument(dom) :
     dom[n].tagName = "IMG" /\ getAttribute(dom[n], "src") # <<>>}

\* Every character of s is a byte (Base64.encode takes no other).
bytesOnly(s) ==
  \A k \in 0..(Len(s) - 1) : charCode(charAt(s, k)) <= 255

\* The data URI of section 4.A can be built for the resource: a resource
\* that is neither base64 nor quoted-printable is base64-encoded, which
\* needs its data to be bytes.
convertible(entry) ==
  entry.encoding \in {"base64", "quoted-printable"} \/ bytesOnly(entry.data)

\* C4 as stated: after convert, every <img> whose src resolves in the
\* archive (through the URL resolver, base = the index) to a resource whose
\* content type begins with "image" has a src that begins with "data:".
C4_ResolvedImagesEmbedded ==
  convertReturned =>
    \A before \in {original} : \A n \in images(before) :
      \A found \in {findAsset(cv.media, cv.index, getAttribute(before[n], "src")[1])} :
        (found.found /\ startsWith(found.entry.type, "image"))
          => /\ n \in inDocument(result.v)
             /\ getAttribute(result.v[n], "src") # <<>>
             /\ startsWith(getAttribute(result.v[n], "src")[1], "data:")

\* C4 as amended: after convert, every <img> whose src is, verbatim, the key
\* of a resource of media whose content type begins with "image" and for
\* which the data URI can be built has that data URI as its src, which
\* begins with "data:"; and no <img> of the returned document, the ones
\* taken out of a shadow template included, is left with such a src.
C4_VerbatimImagesEmbedded ==
  convertReturned =>
    \A before \in {original} : \A out \in {result.v} :
      /\ \A n \in images(before) : \A src \in {getAttribute(before[n], "src")[1]} :
           (/\ hasOwn(cv.media, src)
            /\ startsWith(own(cv.media, src).type, "image")
            /\ convertible(own(cv.media, src)))
             => /\ n \in inDocument(out)
                /\ getAttribute(out[n], "src") = <<convertAssetToDataURI(own(cv.media, src)).v>>
                /\ startsWith(getAttribute(out[n], "src")[1], "data:")
      /\ \A n \in images(out) : \A src \in {getAttribute(out[n], "src")[1]} :
           ~(/\ hasOwn(cv.media, src)
             /\ startsWith(own(cv.media, src).type, "image")
             /\ convertible(own(cv.media, src)))

\* An <img> of a base64 PNG and one of a quoted-printable SVG carry their
\* data URIs.
C4_Witness ==
  /\ convertReturned
  /\ \E before \in {original} :
       /\ \E n \in images(before) :
            /\ getAttribute(before[n], "src") = <<"http://e/i/bg.png">>
            /\ getAttribute(result.v[n], "src") = <<"data:image/png;base64,YWI=">>
       /\ \E n \in images(before) :
            /\ getAttribute(before[n], "src") = <<"http://e/q.svg">>
            /\ getAttribute(result.v[n], "src")
                 = <<"data:image/svg+xml;utf8,%3Csvg%20id%3D%22q%22/%3E">>

\* replaceReferences has returned a text.
rewritten ==
  pc = "rewritten" /\ result.kind = "css"

\* The positions of the url( tokens of a text that a ) closes.
occurrences(css) ==
  {j \in 0..(Len(css) - 1) :
     matchAt(css, CSS_URL_RULE, j) /\ indexOf(css, ")", j + Len(CSS_URL_RULE)) # -1}

\* The payload of the url( token at position j: the text up to the next ).
payload(css, j) ==
  substring(css, j + Len(CSS_URL_RULE), indexOf(css, ")", j + Len(CSS_URL_RULE)))

\* C5: for every CSS text T, base B and archive, replaceReferences returns
\* a text in which every url(...) occurrence of T, at any position, whose
\* reference resolves to a known resource has its payload replaced by
\* 'data:<type>;base64,...': the occurrence as it stood is gone and a
\* payload of that form is there.
C5_EveryResolvedUrlReplaced ==
  rewritten =>
    \A j \in occurrences(call.arg.css) :
      \A found \in {findAsset(call.arg.media, call.arg.base, payload(call.arg.css, j))} :
        found.found =>
          /\ ~includes(result.v, CSS_URL_RULE \o payload(call.arg.css, j) \o ")")
          /\ includes(result.v,
                      CSS_URL_RULE \o "'data:" \o found.entry.type \o ";base64,")

\* The positions of all url( tokens of a text, closed by a ) or not.
urlTokens(css) ==
  {j \in 0..(Len(css) - 1) : matchAt(css, CSS_URL_RULE, j)}

\* The reference resolves under one of the four strategies of the resolver.
resolves(media, base, reference) ==
  findAsset(media, base, reference).found

\* A text from position from on, with the payload of every url(...) that
\* resolves, or that is a quoted data URI, taken out: what is left is the
\* unresolvable references and all the text around the references.
RECURSIVE skeleton(_, _, _, _)
skeleton(media, base, css, from) ==
  LET closed(j, e, reference) ==
        slice(css, from, j + Len(CSS_URL_RULE))
          \o (IF startsWith(reference, "'data:") \/ resolves(media, base, reference)
              THEN "" ELSE reference)
          \o skeleton(media, base, css, e)
      token(j, e) ==
        IF e = -1 THEN substringFrom(css, from) ELSE closed(j, e, slice(css, j + 4, e))
      next(j) ==
        IF j = -1 THEN substringFrom(css, from)
        ELSE token(j, indexOf(css, ")", j + Len(CSS_URL_RULE)))
  IN  next(indexOf(css, CSS_URL_RULE, from))

C6_WitnessNoneResolves ==
  /\ rewritten
  /\ call.arg.media # <<>>
  /\ call.arg.css = "a{b:url(nope.gif)} e{f:url(nope.gif)}"
  /\ result.v = call.arg.css

\* The <iframe> elements of a document.
iframes(dom) ==
  {n \in inDocument(dom) : dom[n].tagName = "IFRAME"}

\* src has the form cid:<id> and frames['<' + id + '>'] is there, of type
\* text/html.
namesFrame(frames, src) ==
  /\ src # <<>>
  /\ startsWith(src[1], "cid:")
  /\ frames.t = "object"
  /\ hasOwn(frames.v, "<" \o substringFrom(src[1], 4) \o ">")
  /\ own(frames.v, "<" \o substringFrom(src[1], 4) \o ">").type = "text/html"

\* The conversions of frame id made by the call the caller made (depth 1),
\* against the media table media with the frame added under its id.
conversionsOf(id, media, frame) ==
  {k \in 1..Len(frameLog) :
     /\ frameLog[k].id = id
     /\ frameLog[k].depth = 1
     /\ frameLog[k].media = put(media, id, frame)}

\* C7: for every <iframe> of the document: when convertIframes is false its
\* src is left unchanged; when convertIframes is true and src has the form
\* cid:<id> with frames['<' + id + '>'] present and of type text/html, src
\* is 'data:text/html;charset=utf-8,' followed by the percent-encoding of
\* the HTML that the recursive conversion of that frame, against the same
\* media table, resulted in.
C7_IframesConverted ==
  convertReturned =>
    \A before \in {original} : \A n \in iframes(before) :
      \A src \in {getAttribute(before[n], "src")} :
        /\ ~cv.convertIframes => getAttribute(result.v[n], "src") = src
        /\ (cv.convertIframes /\ namesFrame(cv.frames, src)) =>
             \A id \in {"<" \o substringFrom(src[1], 4) \o ">"} :
               \E k \in conversionsOf(id, cv.media, own(cv.frames.v, id)) :
                 getAttribute(result.v[n], "src")
                   = <<"data:text/html;charset=utf-8,"
                         \o encodeURIComponent(frameLog[k].html)>>

\* The frame <f1> has been converted (its stylesheet link and its image
\* embedded, integrity removed, <base> added) and stands percent-encoded in
\* the src of the <iframe src="cid:f1">.
C7_Witness ==
  /\ convertReturned
  /\ cv.convertIframes
  /\ Len(frameLog) = 1
  /\ frameLog[1].html
       = "<html><head><base target=\"_parent\"><style type=\"text/css\">"
           \o "b{c:url('data:image/png;base64,YWI=')}</style></head><body>"
           \o "<img src=\"data:image/png;base64,YWI=\"></body></html>"
  /\ \E before \in {original} : \E n \in iframes(before) :
       /\ getAttribute(before[n], "src") = <<"cid:f1">>
       /\ startsWith(getAttribute(result.v[n], "src")[1],
                     "data:text/html;charset=utf-8,%3Chtml%3E%3Chead%3E"
                       \o "%3Cbase%20target%3D%22_parent%22%3E%3Cstyle%20type%3D"
                       \o "%22text%2Fcss%22%3Eb%7Bc%3Aurl('data%3Aimage%2Fpng"
                       \o "%3Bbase64%2CYWI%3D')%7D%3C%2Fstyle%3E")

\* With convertIframes false, the <iframe src="cid:f1"> of a page whose
\* archive holds the frame has kept its src.
C7_WitnessDisabled ==
  /\ convertReturned
  /\ ~cv.convertIframes
  /\ \E before \in {original} : \E n \in iframes(before) :
       /\ namesFrame(cv.frames, getAttribute(before[n], "src"))
       /\ getAttribute(result.v[n], "src") = <<"cid:f1">>

\* C8: after convert returns, no element of the returned document carries
\* an integrity attribute.
C8_NoIntegrity ==
  convertReturned =>
    \A out \in {result.v} : \A n \in inDocument(out) :
      ~hasAttribute(out[n], "integrity")

\* An element that carried integrity is in the returned document without
\* it, and so is the copy of one that stood in a shadow template.
C8_Witness ==
  /\ convertReturned
  /\ \E before \in {original} : \E out \in {result.v} :
       /\ \E n \in inDocument(before) \cap inDocument(out) :
            /\ hasAttribute(before[n], "integrity")
            /\ ~hasAttribute(out[n], "integrity")
       /\ \E n \in 1..Len(before) : \E m \in inDocument(out) :
            /\ n \notin inDocument(before)
            /\ hasAttribute(before[n], "integrity")
            /\ m > Len(before)
            /\ out[m].tagName = before[n].tagName
            /\ ~hasAttribute(out[m], "integrity")

\* The HEAD elements of a document.
heads(dom) ==
  {n \in inDocument(dom) : dom[n].tagName = "HEAD"}

\* Node b is a <base target="_parent"> element.
isBaseParent(dom, b) ==
  /\ dom[b].tagName = "BASE"
  /\ getAttribute(dom[b], "target") = <<"_parent">>

\* C9: after convert returns, the HEAD element of the returned document
\* has a <base target="_parent"> element as its first child.
C9_BaseFirstInHead ==
  convertReturned =>
    \A out \in {result.v} :
      /\ heads(out) # {}
      /\ \A h \in heads(out) :
           /\ Len(out[h].childNodes) > 0
           /\ isBaseParent(out, out[h].childNodes[1])

\* A HEAD that had children has the <base> before them.
C9_Witness ==
  /\ convertReturned
  /\ \E before \in {original} : \E out \in {result.v} : \E h \in heads(out) :
       /\ Len(before[h].childNodes) > 0
       /\ Len(out[h].childNodes) = Len(before[h].childNodes) + 1
       /\ isBaseParent(out, out[h].childNodes[1])

\* The elements of a document store that have a style attribute.
styled(dom, nodes) ==
  {n \in nodes : dom[n].nodeType = ELEMENT_NODE /\ hasAttribute(dom[n], "style")}

\* The declarations of custom properties (--name: value) of an inline style.
customProperties(style) ==
  LET of(declarations) ==
        {strTrim(declarations[k]) :
           k \in {j \in 1..Len(declarations) :
                    startsWith(strTrim(declarations[j]), "--")}}
  IN  of(split(style, ";"))

\* The style after is the style before but for substituted url(...)
\* payloads, and holds every custom property of it: whole when its value
\* has no url(, at least its name otherwise.
stylePreserved(media, base, styleBefore, styleAfter) ==
  /\ skeleton(media, base, styleAfter, 0) = skeleton(media, base, styleBefore, 0)
  /\ \A d \in customProperties(styleBefore) :
       IF includes(d, CSS_URL_RULE)
       THEN includes(styleAfter, slice(d, 0, indexOf(d, ":", 0) + 1))
       ELSE includes(styleAfter, d)

\* C10: for every element that has a style attribute, the attribute's value
\* after convert equals its value before, byte for byte, except where the
\* CSS rewriter substituted a url(...) payload; every CSS custom property
\* of an inline style of the input is in the output.  (An element copied
\* out of a shadow template is compared with the element it is a copy of.)
C10_InlineStylePreserved ==
  convertReturned =>
    \A before \in {original} : \A out \in {result.v} :
      /\ \A n \in styled(before, 1..Len(before)) :
           /\ hasAttribute(out[n], "style")
           /\ stylePreserved(cv.media, cv.index, own(before[n].attributes, "style"),
                             own(out[n].attributes, "style"))
      /\ \A m \in styled(out, inDocument(out)) :
           m > Len(before) =>
             \E n \in styled(before, 1..Len(before)) :
               /\ before[n].tagName = out[m].tagName
               /\ stylePreserved(cv.media, cv.index,
                                 own(before[n].attributes, "style"),
                                 own(out[m].attributes, "style"))

\* An inline style with a custom property and a reference: the reference is
\* embedded, the custom property stands.
C10_Witness ==
  /\ convertReturned
  /\ \E before \in {original} : \E n \in styled(before, inDocument(before)) :
       /\ own(before[n].attributes, "style") = "--x: 1; background: url(../i/bg.png)"
       /\ own(result.v[n].attributes, "style")
            = "--x: 1; background: url('data:image/png;base64,YWI=')"

\* The step of parse that ends the header block of a part and creates the
\* part's asset: the part's headers are the object content before the step.
registers ==
  /\ pc = "parse" /\ ps.status = "running"
  /\ Len(ps'.assets) = Len(ps.assets) + 1

\* C11: when several parts of one archive carry the same Content-Location,
\* media holds exactly one entry for that URL, and it is the resource of the
\* first such part.  Step by step: once the headers of a part located at a
\* URL are read, media holds exactly one entry for the URL, the one it held
\* before or else the asset of this part; no step changes an entry of media,
\* the type or the encoding of an asset, or the data of an asset other than
\* the one whose body is being read.
C11_FirstLocationWins ==
  [][/\ registers =>
          \A location \in {header(ps.content, "Content-Location")} :
            location # <<>> =>
              /\ Cardinality({n \in 1..Len(ps'.media) :
                               ps'.media[n].k = location[1]}) = 1
              /\ own(ps'.media, location[1])
                   = IF hasOwn(ps.media, location[1])
                     THEN own(ps.media, location[1]) ELSE Len(ps'.assets)
     /\ (pc = "parse" /\ ps.status = "running") =>
          /\ \A n \in 1..Len(ps.media) : ps'.media[n] = ps.media[n]
          /\ \A n \in 1..Len(ps.assets) :
               /\ ps'.assets[n].type = ps.assets[n].type
               /\ ps'.assets[n].encoding = ps.assets[n].encoding
               /\ n # ps.asset => ps'.assets[n].data = ps.assets[n].data
    ]_vars

\* The MIME type of a Content-Type value: what stands before its first ";".
mimeOf(contentType) ==
  strTrim(split(contentType, ";")[1])

\* The charset parameter of a Content-Type value, without quotes; <<>> (null)
\* when it has none.
charsetOf(contentType) ==
  LET value(rest) == strTrim(replaceAll(split(rest, ";")[1], "\"", ""))
      from(k) ==
        IF k = -1 THEN <<>>
        ELSE <<value(substringFrom(contentType, k + Len("charset=")))>>
  IN  from(indexOf(contentType, "charset=", 0))

\* C12: the resource parse registers for a part whose Content-Type is
\* "M; charset=C" (C optionally in double quotes) has type M and charset C
\* without quotes; for a Content-Type with no charset parameter it has the
\* header value as type and charset null.
C12_TypeWithoutCharset ==
  [][registers =>
       \A contentType \in {header(ps.content, "Content-Type")} :
         \A asset \in {ps'.assets[Len(ps'.assets)]} :
           contentType # <<>> =>
             /\ asset.type = mimeOf(contentType[1])
             /\ "charset" \in DOMAIN asset
             /\ asset.charset = charsetOf(contentType[1])
    ]_vars

\* The call of parse has ended, with a result or an error.
parseDone ==
  pc = "done" /\ call.api = "parse"

\* The LF-only form of a text: every CRLF written as LF.
lfForm(text) ==
  replaceAll(text, "\r\n", "\n")

\* The locals of parse at the end of a run on the LF-only form of the text
\* of the call.
parsedLF ==
  parseRun(parseStart(lfForm(call.arg.v)), htmlOnly)

\* The keys of an object, in its order.
keysOf(obj) ==
  [n \in 1..Len(obj) |-> obj[n].k]

\* What parse extracted from the headers of the parts: type, encoding and
\* id of every asset, in the order of the parts.
partHeaders(q) ==
  [n \in 1..Len(q.assets) |-> <<q.assets[n].type, q.assets[n].encoding, q.assets[n].id>>]

\* The text has a line that ends in CRLF and a line that ends in LF alone.
mixed(text) ==
  /\ includes(text, "\r\n")
  /\ \E k \in 0..(Len(text) - 1) :
       charAt(text, k) = "\n" /\ (k = 0 \/ charAt(text, k - 1) # "\r")

allCRLF(text) ==
  includes(text, "\r\n") /\ ~mixed(text)

\* C14: parse of a valid text with every line terminator written as CRLF
\* and parse of the same text with every terminator written as LF return
\* equal archives: the same index, the same media and frames keys in the
\* same order, and for every resource the same type, encoding and data.
C14_CRLFAndLFParseEqual ==
  (parseDone /\ ~htmlOnly /\ allCRLF(call.arg.v)) =>
    \A lf \in {parsedLF} :
      lf.status = "returned" =>
        /\ ps.status = "returned"
        /\ archiveOf(ps) = archiveOf(lf)

\* The text begins with head, and the line after head, a boundary line, is
\* complete.
beginsWith(text, head) ==
  startsWith(text, head \o "----b") /\ indexOf(text, "\n", Len(head)) # -1

\* The data of the index as parse returns it for head followed by nothing
\* but the closing boundary line.
bodyOf(head) ==
  LET data(q) == IF q.status = "returned" THEN <<q.assets[1].data>> ELSE <<>>
  IN  data(parseRun(parseStart(head \o "----b--\n"), FALSE))

\* C15: parse with htmlOnly = true returns the DOM provider's result for the
\* body of the first HTML part as soon as that body has been read, whatever
\* follows the boundary line that ends the body: for every head of the model
\* (document headers and index part, in every way of ending lines) and every
\* text that begins with it, the result is parseDOM of the body of the head,
\* parseDOM has been called once, one asset has been created and the read
\* position is the end of that boundary line.
C15_HtmlOnlyReadsFirstPart ==
  (parseDone /\ htmlOnly) =>
    \A h \in 1..Len(Heads), e \in 1..Len(Endings) :
      \A head \in {Written(Heads[h], Endings[e])} :
        beginsWith(call.arg.v, head) =>
          \A body \in {bodyOf(head)} :
            /\ body # <<>>
            /\ result.kind = "dom"
            /\ result.v = parseDOM(body[1])
            /\ domCalls = 1
            /\ Len(ps.assets) = 1
            /\ ps.i = indexOf(call.arg.v, "\n", Len(head)) + 1

\* parse with htmlOnly has returned the document of the index of a text
\* that parse without htmlOnly rejects, after the first part.
C15_Witness ==
  /\ parseDone /\ htmlOnly
  /\ result.kind = "dom"
  /\ result.v = Document(PageMinimal)
  /\ beginsWith(call.arg.v, Written(Heads[1], "crlf"))
  /\ ps.i < Len(call.arg.v) - 1
  /\ \E full \in {parseRun(parseStart(call.arg.v), FALSE)} :
       full.status = "threw" /\ full.error = "Content-Type not provided"

textAmong(texts) ==
  \E n \in 1..Len(texts) : call.arg.v = texts[n]

\* C17: when the input ends while the parser is in the middle of a part's
\* headers or body and an HTML index has already been established, parse
\* does not raise: it returns the archive built so far, the index in it.
C17_EndOfInputReturnsArchive ==
  (parseDone /\ textAmong(EndingTexts) /\ ps.index # <<>>) =>
    /\ result.kind # "error"
    /\ ~htmlOnly =>
         /\ result.kind = "archive"
         /\ result.v.index = ps.index
         /\ hasOwn(result.v.media, ps.index[1])

\* C18: when a part lacks Content-Transfer-Encoding, lacks Content-Type, or
\* lacks both Content-ID and Content-Location, parse does not raise: it
\* drops that part, continues with the following parts and returns an
\* archive object, which holds the parts before and after the dropped one.
C18_PartLackingHeadersDropped ==
  (parseDone /\ textAmong(LackingTexts)) =>
    /\ result.kind # "error"
    /\ ~htmlOnly =>
         /\ result.kind = "archive"
         /\ hasOwn(result.v.media, IndexUrl)
         /\ hasOwn(result.v.media, "http://e/i/bg.png")
         /\ own(result.v.media, "http://e/i/bg.png").type = "image/png"

\* convert was called with a parsed archive that satisfies I1: index is a
\* key of media and media[index] is of type "text/html".
validArchive ==
  objectArgument /\ expectedError = ""

\* Every base64 resource of media decodes.
decodable(media) ==
  \A n \in 1..Len(media) :
    media[n].v.encoding = "base64" => Base64decode(media[n].v.data).ok

\* C19: convert terminates and returns a document for every archive that
\* satisfies I1, archives in which stylesheets reference themselves or each
\* other through url(...) included: the recursion into nested CSS is
\* bounded.  (Stated for the archives whose base64 resources all decode; a
\* malformed payload is the matter of C20.)
C19_ConvertReturnsOnCssCycles ==
  (pc = "done" /\ validArchive /\ decodable(call.arg.v.media.v)) =>
    result.kind = "dom"

\* The index of the archive convert was called with is the page.
indexIs(page) ==
  /\ hasOwn(call.arg.v.media.v, IndexUrl)
  /\ own(call.arg.v.media.v, IndexUrl).data = htmlSource(page)

\* In the document dom the reference stands as it was, in the <style> and
\* in the inline style, and the sound reference after it in the <style> is
\* embedded.
skipped(dom, reference) ==
  /\ \E s \in inDocument(dom) :
       isStyleWith(dom, s, "a{b:url(" \o reference
                             \o ")} c{d:url('data:image/png;base64,YWI=')}")
  /\ \E p \in inDocument(dom) :
       /\ dom[p].tagName = "P"
       /\ getAttribute(dom[p], "style") = <<"e: url(" \o reference \o ")">>

\* C20: no failure on a single reference aborts a conversion: when decoding
\* the asset behind a url(...) reference fails (a malformed base64 payload)
\* or encoding it fails (data Base64.encode rejects), the rewriter skips that
\* reference, leaves the surrounding CSS as it was, and convert still
\* returns the document.
C20_ReferenceFailureSkipped ==
  (pc = "done" /\ validArchive) =>
    /\ indexIs(PageUndecodable) =>
         result.kind = "dom" /\ skipped(result.v, "http://e/m.png")
    /\ indexIs(PageUnencodable) =>
         result.kind = "dom" /\ skipped(result.v, "http://e/o.svg")

\* The global unescape(): %uXXXX and %XX become the code unit they name.
unescape(s) ==
  LET hex(k, n) == \A d \in 1..n : isHexDigit(charAt(s, k + d))
      short(k) == charAt(s, k) = "%" /\ hex(k, 2)
      long(k) == charAt(s, k) = "%" /\ charAt(s, k + 1) = "u" /\ hex(k + 1, 4)
      pair(k) == hexValue(charAt(s, k)) * 16 + hexValue(charAt(s, k + 1))
  IN  mapChars(s, LAMBDA k :
        IF long(k) THEN fromCharCode(pair(k + 2) * 256 + pair(k + 4))
        ELSE IF short(k) THEN fromCharCode(pair(k + 1))
        ELSE IF (\E d \in 1..5 : long(k - d)) \/ (\E d \in 1..2 : short(k - d)) THEN ""
        ELSE charAt(s, k))

\* The text of s after the first occurrence of mark, up to the next
\* occurrence of end ("" for the end of s).
payloadAfter(s, mark, end) ==
  LET from(a) == substring(s, a, IF end = "" THEN Len(s) ELSE indexOf(s, end, a))
  IN  from(indexOf(s, mark, 0) + Len(mark))

\* The bytes the CSS rewriter embeds for the resource at key: what it writes
\* for url(key), the base64 of the data URI undone.
rewriterBytes(media, key) ==
  LET undo(css) ==
        IF ~css.ok THEN css
        ELSE IF ~includes(css.v, ";base64,") THEN Throw("not embedded")
        ELSE Base64decode(payloadAfter(css.v, ";base64,", "'"))
  IN  undo(replaceReferences(media, "", "a{b:url(" \o key \o ")}", MaxCssDepth))

\* The bytes convertAssetToDataURI embeds for a resource: the payload of its
\* data URI, with escape() undone for ;utf8, and base64 undone for ;base64,.
converterBytes(asset) ==
  LET undo(uri) ==
        IF ~uri.ok THEN uri
        ELSE IF includes(uri.v, ";utf8,") THEN Ok(unescape(payloadAfter(uri.v, ";utf8,", "")))
        ELSE Base64decode(payloadAfter(uri.v, ";base64,", ""))
  IN  undo(convertAssetToDataURI(asset))

\* C21: every consumer of a resource sees the same decoded bytes: for every
\* resource of an archive parse returned, whether base64, quoted-printable
\* or 7bit, the bytes the CSS rewriter embeds for it and the bytes
\* convertAssetToDataURI embeds for it, after undoing the data URI's own
\* encoding, are equal.
C21_ConsumersSeeSameBytes ==
  parseReturned =>
    \A media \in {archiveOf(ps).media} :
      \A n \in 1..Len(media) :
        \A r \in {rewriterBytes(media, media[n].k)} :
          \A c \in {converterBytes(media[n].v)} :
            /\ r.ok /\ c.ok
            /\ r.v = c.v

\* The locals of the call of convert the caller made: those of the call
\* that waits outermost while frames are converted, of the running call
\* otherwise.
outermost ==
  IF stack # <<>> THEN stack[1] ELSE cv

\* C22: convert does not modify the archive it is given: from its checks on
\* to its return or its error, index, the key sets of media and frames, and
\* every resource's type, encoding and data are what they were before the
\* call, also while and after frames are converted.  (Stated on the locals
\* of the call whose argument is the archive given; a recursive call's
\* argument is the object built for it.)
C22_ArchiveNotModified ==
  (validArchive /\ pc \in {"convert", "done"}) =>
    \A given \in {outermost} :
      (given.status # "validate" /\ given.mhtml = call.arg) =>
        /\ given.index = call.arg.v.index.v
        /\ given.media = call.arg.v.media.v
        /\ given.frames = call.arg.v.frames
        /\ \A n \in 2..Len(stack) :
             /\ stack[n].media = stack[n].mhtml.v.media.v
             /\ stack[n].frames = call.arg.v.frames

\* convert has returned the document of an archive with frames, having
\* converted a frame inside a frame, and holds the archive as it was given.
C22_Witness ==
  /\ validArchive
  /\ pc = "done"
  /\ result.kind = "dom"
  /\ \E n \in 1..Len(frameLog) : frameLog[n].depth = 2
  /\ call.arg.v.frames.v # <<>>
  /\ cv.media = call.arg.v.media.v

\* findAsset has returned.
resolved ==
  pc = "resolved" /\ result.kind = "found"

\* The reference with its quotes stripped.
quoteStripped(reference) ==
  replaceAll(replaceAll(reference, "\"", ""), "'", "")

\* The relative join of a reference on a base: the last segment of the base
\* dropped, "." segments skipped, each ".." popping one segment.
relativeJoin(base, reference) ==
  join(foldParts(popped(split(base, "/")), split(reference, "/")), "/")

\* The keys the first three strategies look up, in their order: the
\* reference verbatim, its relative join on the base, and the origin of the
\* base followed by the reference when the reference starts with "/" and
\* the base parses as a URL.
lookups(base, reference) ==
  <<reference, relativeJoin(base, reference)>>
    \o (IF startsWith(reference, "/") /\ urlParses(base)
        THEN <<origin(base) \o reference>> ELSE <<>>)

\* The last path segment of a reference.
filenameOf(reference) ==
  last(split(reference, "/"))

\* C23: findAsset returns the media entry found by the first strategy that
\* hits a key of media, in the order verbatim, relative join, origin of the
\* base + reference, filename tail, and returns no result only when all
\* four miss.
C23_FirstStrategyThatHits ==
  resolved =>
    \A media \in {call.arg.media}, reference \in {quoteStripped(call.arg.reference)} :
      \A keys \in {lookups(call.arg.base, reference)} :
        \A hits \in {{n \in 1..Len(keys) : hasOwn(media, keys[n])}} :
          IF hits # {}
          THEN /\ result.v.found
               /\ result.v.path = keys[firstOf(hits)]
               /\ result.v.entry = own(media, result.v.path)
          ELSE IF /\ Len(filenameOf(reference)) > 3
                  /\ \E n \in 1..Len(media) : endsWith(media[n].k, filenameOf(reference))
          THEN /\ result.v.found
               /\ hasOwn(media, result.v.path)
               /\ endsWith(result.v.path, filenameOf(reference))
               /\ result.v.entry = own(media, result.v.path)
          ELSE ~result.v.found

\* The keys of media the filename tail of a reference matches: the keys
\* that end with "/" + filename or are exactly filename, in the order in
\* which the parts came in the archive.
tailMatches(media, filename) ==
  SelectSeq(keysOf(media),
            LAMBDA key : endsWith(key, "/" \o filename) \/ key = filename)

\* C24: when the first three strategies miss, the filename-tail strategy is
\* used only when the last path segment of the reference is longer than
\* three characters; it matches a media key only when the key ends with
\* "/" + filename or is exactly filename, and among the matching keys it
\* returns the one whose part came first in the archive.  (References that
\* name a member of Object.prototype, which the direct lookup answers, are
\* left aside.)
C24_FilenameTail ==
  resolved =>
    \A media \in {call.arg.media}, reference \in {quoteStripped(call.arg.reference)} :
      \A keys \in {lookups(call.arg.base, reference)} :
        \A matches \in {tailMatches(media, filenameOf(reference))} :
          (/\ \A n \in 1..Len(keys) : ~hasOwn(media, keys[n])
           /\ reference \notin ObjectPrototypeKeys)
            => IF Len(filenameOf(reference)) > 3 /\ matches # <<>>
               THEN /\ result.v.found
                    /\ result.v.path = matches[1]
                    /\ result.v.entry = own(media, matches[1])
               ELSE ~result.v.found

\* The line parse read last: the text from the line end before the read
\* position back to the line end before that.
lineReadLast(q) ==
  substring(q.mhtml,
            lastOf({k \in 0..(q.i - 2) : charAt(q.mhtml, k) = "\n"}) + 1, q.i)

\* The moves of the parser's state: it stays, or goes from the document
\* headers to part headers, from part headers to a body, from a body to
\* part headers or to the end.
StateMoves ==
  {<<MHTML_HEADERS, MTHML_CONTENT>>, <<MTHML_CONTENT, MHTML_DATA>>,
   <<MHTML_DATA, MTHML_CONTENT>>, <<MHTML_DATA, MHTML_END>>}

RECURSIVE linesFrom(_, _)
linesFrom(text, i) ==
  LET upTo(e) ==
        IF e = -1 THEN <<slice(text, i, Len(text))>>
        ELSE <<slice(text, i, e + 1)>> \o linesFrom(text, e + 1)
  IN  IF i >= Len(text) THEN <<>> ELSE upTo(indexOf(text, "\n", i))

\* A body as line 414 leaves it: read as UTF-8 when it is well formed, as
\* it is otherwise.
asUnicode(data) ==
  LET decoded(d) == IF d.ok THEN d.v ELSE data
  IN  decoded(decodeUnicode(data))

lineAhead(q) ==
  linesFrom(q.mhtml, q.i)[1]

\* C27: every header line that begins with white space is treated as a
\* continuation of the previous header of the same header block: in a step
\* that reads such a line (one that does not end the block), the headers of
\* the block stay the same but for the header read last, whose value has
\* the trimmed line appended; no header is created.
C27_FoldedLineContinues ==
  [][ \A field \in {IF ps.state = MHTML_HEADERS THEN "headers" ELSE "content"} :
        (/\ pc = "parse" /\ ps.status = "running"
         /\ ps.state \in {MHTML_HEADERS, MTHML_CONTENT}
         /\ ps.i < Len(ps.mhtml)
         /\ IsSpace(charAt(lineAhead(ps), 0))
         /\ ~endsHeaders(lineAhead(ps))
         /\ ps'.status # "threw")
        => /\ keysOf(ps'[field]) = keysOf(ps[field])
           /\ ps.key # <<>>
           /\ hasOwn(ps[field], ps.key[1])
           /\ \A n \in 1..Len(ps[field]) :
                ps'[field][n].v
                  = IF ps[field][n].k = ps.key[1]
                    THEN ps[field][n].v \o strTrim(lineAhead(ps))
                    ELSE ps[field][n].v
    ]_vars

\* The CSS rewriter as C28 describes its scan: as replaceReferences, but
\* after a replacement the search for the next url( starts at the position
\* that follows the inserted data URI.
RECURSIVE resuming(_, _, _, _)
resuming(media, base, css, from) ==
  LET embedded(type, assetData) ==
        "'data:" \o type \o ";base64," \o Base64encode(assetData).v \o "'"
      replace(i, reference, inserted) ==
        resuming(media, base, splice(css, i, reference, inserted), i + Len(inserted))
      data(i, reference, type, assetData) ==
        IF assetData.ok /\ Base64encode(assetData.v).ok
        THEN replace(i, reference, embedded(type, assetData.v))
        ELSE resuming(media, base, css, i + Len(reference))
      resolve(i, reference, found) ==
        IF ~found.found THEN resuming(media, base, css, i + Len(reference))
        ELSE data(i, reference, found.entry.type,
                  IF found.entry.type = "text/css"
                  THEN processCSS(media, found.path, MaxCssDepth)
                  ELSE decodeEntry(found.entry))
      at(i) ==
        resolve(i, substring(css, i, indexOf(css, ")", i)),
                findAsset(media, base, substring(css, i, indexOf(css, ")", i))))
      next(j) == IF ~(j > 0) THEN css ELSE at(j + Len(CSS_URL_RULE))
  IN  next(indexOf(css, CSS_URL_RULE, from))

\* C28: after each replacement the CSS rewriter resumes scanning at the
\* position that follows the inserted data URI, so that it neither scans
\* the text it has just inserted nor skips original text that follows the
\* replaced reference: the text it returns is the text of that scan.
C28_ScanResumesAfterInsert ==
  rewritten =>
    result.v = resuming(call.arg.media, call.arg.base, call.arg.css, 0)

\* The child <template> of node h that carries data-shadowrootmode or
\* data-shadowmode (the first one), 0 when there is none.
shadowTemplateOf(dom, h) ==
  LET first(kids, k) == IF k = -1 THEN 0 ELSE kids[k]
      among(kids) ==
        first(kids, firstOf({k \in 1..Len(kids) : isShadowTemplate(dom[kids[k]])}))
  IN  IF isElement(dom, h) THEN among(children(dom, h)) ELSE 0

\* The template holds only <slot> placeholders: every node of its content
\* is a <slot> element, a comment, or white space.
onlySlots(dom, t) ==
  \A k \in 1..Len(dom[t].content) :
    \A node \in {dom[dom[t].content[k]]} :
      \/ node.tagName = "SLOT"
      \/ node.nodeType = COMMENT_NODE
      \/ node.nodeType = TEXT_NODE /\ strTrim(node.data) = ""

\* C29: when convert visits an element with a child <template> carrying
\* data-shadowrootmode or data-shadowmode: if the template holds only
\* <slot> placeholders (comments ignored) or the host has any other child,
\* the template is removed and the host's other children stay in place and
\* in order; otherwise the template's non-comment content is appended to
\* the host and the template is removed; in both cases a loaded attribute
\* of the host is removed.
C29_ShadowTemplateFlattened ==
  [][ (/\ visiting
       /\ shadowTemplateOf(cv.dom, currentChild(cv)) # 0
       /\ cv'.status = "walk" /\ stack' = stack)
      => \A h \in {currentChild(cv)}, t \in {shadowTemplateOf(cv.dom, currentChild(cv))} :
           \A others \in {removeFrom(cv.dom[h].childNodes, t)},
              content \in {SelectSeq(cv.dom[t].content,
                                     LAMBDA m : cv.dom[m].nodeType # COMMENT_NODE)} :
             /\ ~hasAttribute(cv'.dom[h], "loaded")
             /\ IF onlySlots(cv.dom, t) \/ others # <<>>
                THEN /\ cv'.dom[h].childNodes = others
                     /\ \A k \in 1..Len(others) : cv'.dom[others[k]] = cv.dom[others[k]]
                ELSE /\ Len(cv'.dom[h].childNodes) = Len(content)
                     /\ \A k \in 1..Len(content) : cv'.dom[h].childNodes[k] > Len(cv.dom)
                     /\ serializeAll(cv'.dom, cv'.dom[h].childNodes, cv.dom[h].tagName)
                          = serializeAll(cv.dom, content, cv.dom[h].tagName)
    ]_vars

\* The index of the archive is a page of the model that holds frames: one
\* frame in another, a frame that holds itself, two frames that hold each
\* other.
framesNested ==
  indexIs(PageFrames) \/ indexIs(PageOuter) \/ indexIs(PageNested)

framesCyclic ==
  indexIs(PageSelf) \/ indexIs(PageLoopA) \/ indexIs(PageLoopB)

\* C30: convert with convertIframes = true terminates for every archive
\* that satisfies I1, archives in which a frame's HTML holds an <iframe>
\* whose cid: src names that same frame or a frame that leads back to it
\* included: the recursion of convert into frames is bounded by the size of
\* the archive, so that convert returns the document.
C30_ConvertReturnsOnFrameCycles ==
  (/\ pc = "done" /\ call.api = "convert" /\ validArchive /\ call.convertIframes
   /\ (framesNested \/ framesCyclic))
    => result.kind = "dom"

==============================================================================
